---- MODULE Spec2Model ----
(***************************************************************************)
(* Teacher Notes synthesis engine of canvas-quiz-pipeline                  *)
(* (apps/cli/src/session/teacherNotes.ts and the teacher-notes command of  *)
(* apps/cli/src/cli.ts), as a state machine.                               *)
(*                                                                         *)
(* Strings are TLA+ strings; a character is a string of length 1.  The    *)
(* regular expressions of the source are hand-translated matchers over    *)
(* the characters.                                                         *)
(***************************************************************************)
EXTENDS Integers, Sequences, FiniteSets, TLC

VARIABLES
    bIn,          \* structure run: the module as listed by the platform and the target page title
    bOut,         \* structure run: the TeacherNotesBuildResult, or NoResult before the build
    tIn,          \* text run: the function applied and its arguments
    tOut,         \* text run: the value returned, or NoResult before the call
    coursePages,  \* platform: the pages of the course, in creation order
    sessionModule, \* platform: the items of the session module, in display order
    cli,          \* the teacher-notes command: its options, position, locals and the calls it made
    first,        \* the first completed live run of the command (kept for the statements)
    courseQuizzes, \* platform: the quizzes of the course, in creation order
    create        \* the create command: its options, position, locals and the calls it made

vars == <<bIn, bOut, tIn, tOut, coursePages, sessionModule, cli, first, courseQuizzes, create>>
quizVars == <<courseQuizzes, create>>
buildVars == <<bIn, bOut>>
textVars == <<tIn, tOut>>
cliVars == <<coursePages, sessionModule, cli, first>>

(***************************************************************************)
(* Bounds                                                                  *)
(***************************************************************************)
MaxItems == 4          \* module items in a listed module
MaxParts == 3          \* page texts joined into a full text
MaxTasks == 2          \* tasks handed to a text function
MaxIntro == 2          \* intro pages handed to buildObjectivePoints
MaxTaskPages == 4      \* pages of the task handed to buildTaskPoints
MaxModule == 2         \* items of the session module before the first run of the command
MaxRuns == 2           \* runs of the teacher-notes command
MaxPlaceItems == 3     \* items of the session module in the placement runs
MaxFetchItems == 3     \* items of the session module in the fetch runs
MaxBuilds == 2         \* builds over the same module in the fetch runs
MaxDiffPages == 2      \* pages of the task handed to buildTaskDifferentiation
MaxUnitItems == 2      \* module items handed to findTeacherNotesInsertionPosition
MaxSeqTasks == 2       \* tasks handed to buildTaskSequenceObjective
MaxRenderItems == 3    \* module items of the module handed to renderTeacherNotesHtml
MaxHtmlParts == 2      \* fragments of the markup handed to toPlainText

(***************************************************************************)
(* String primitives (JavaScript String methods used by the source)        *)
(***************************************************************************)
\* s.charAt(i - 1): the i-th character, "" outside the string
Ch(s, i) == IF i >= 1 /\ i <= Len(s) THEN SubSeq(s, i, i) ELSE ""

WhiteSpace == {" ", "\n", "\t"}

IsSpace(c) == c \in WhiteSpace

UpperChars == "ABCDEFGHIJKLMNOPQRSTUVWXYZ"
LowerChars == "abcdefghijklmnopqrstuvwxyz"
DigitChars == "0123456789"

CharsOf(s) == {SubSeq(s, i, i) : i \in 1..Len(s)}

UpperSet == CharsOf(UpperChars)
LowerSet == CharsOf(LowerChars)
DigitSet == CharsOf(DigitChars)

LowerOfTable == [c \in UpperSet |-> Ch(LowerChars, CHOOSE i \in 1..26 : Ch(UpperChars, i) = c)]
UpperOfTable == [c \in LowerSet |-> Ch(UpperChars, CHOOSE i \in 1..26 : Ch(LowerChars, i) = c)]

LowerOf(c) == IF c \in UpperSet THEN LowerOfTable[c] ELSE c
UpperOf(c) == IF c \in LowerSet THEN UpperOfTable[c] ELSE c

\* x is evaluated here (TRUE for every x): orders the evaluation of the steps of
\* a chain of string methods, s.f().g().h(), first to last
Done(x) == x = x

\* const x = ...; Body: x is evaluated, then Body(x)
With(x, Body(_)) == IF Done(x) THEN Body(x) ELSE Body(x)

\* the least element of a non-empty set of integers
Least(S) == CHOOSE x \in S : \A y \in S : x <= y

\* the concatenation of the strings f[lo], ..., f[hi] (halving, so that the
\* evaluation depth stays logarithmic in the length)
RECURSIVE ConcatRange(_, _, _)
ConcatRange(f, lo, hi) ==
    IF lo > hi THEN ""
    ELSE IF lo = hi THEN f[lo]
    ELSE LET mid == (lo + hi) \div 2
         IN ConcatRange(f, lo, mid) \o ConcatRange(f, mid + 1, hi)

concatAll(f) == ConcatRange(f, 1, Len(f))

toLowerCase(s) == concatAll([i \in 1..Len(s) |-> LowerOf(SubSeq(s, i, i))])
toUpperCase(s) == concatAll([i \in 1..Len(s) |-> UpperOf(SubSeq(s, i, i))])

\* index of the first character at or after i that is not in the class (Len+1 if none)
SkipClass(s, i, class) ==
    IF i > Len(s) THEN i
    ELSE Least({j \in i..(Len(s) + 1) : j = Len(s) + 1 \/ SubSeq(s, j, j) \notin class})

SkipSpaces(s, i) == SkipClass(s, i, WhiteSpace)

\* index of the last character at or before i that is not white space (0 if none)
SkipSpacesBack(s, i) ==
    IF i < 1 THEN i
    ELSE LET stops == {j \in 1..i : SubSeq(s, j, j) \notin WhiteSpace}
         IN IF stops = {} THEN 0 ELSE -Least({-j : j \in stops})

trim(s) ==
    With(SkipSpaces(s, 1), LAMBDA a :
    With(SkipSpacesBack(s, Len(s)), LAMBDA b :
        IF a > b THEN "" ELSE SubSeq(s, a, b)))

\* s.replace(SPACE_RE, " ") with SPACE_RE = /\s+/g
collapseSpaces(s) ==
    concatAll([i \in 1..Len(s) |->
        IF ~IsSpace(SubSeq(s, i, i)) THEN SubSeq(s, i, i)
        ELSE IF i > 1 /\ IsSpace(SubSeq(s, i - 1, i - 1)) THEN ""
        ELSE " "])

StartsAt(s, i, sub) ==
    /\ i >= 1
    /\ i + Len(sub) - 1 <= Len(s)
    /\ SubSeq(s, i, i + Len(sub) - 1) = sub

includes(s, sub) == \E i \in 1..(Len(s) + 1) : StartsAt(s, i, sub)

endsWith(s, sub) == StartsAt(s, Len(s) - Len(sub) + 1, sub)

\* \w of a regular expression
IsWordChar(c) == c \in UpperSet \cup LowerSet \cup DigitSet \cup {"_"}

IsDigit(c) == c \in DigitSet

\* \b holds between the characters i-1 and i of s (i in 1..Len(s)+1)
WordBoundaryAt(s, i) ==
    LET before == i > 1 /\ IsWordChar(Ch(s, i - 1))
        after  == i <= Len(s) /\ IsWordChar(Ch(s, i))
    IN before # after

\* /\bw\b/.test(s)
MatchesWord(s, w) ==
    \E i \in 1..(Len(s) + 1) :
        StartsAt(s, i, w) /\ WordBoundaryAt(s, i) /\ WordBoundaryAt(s, i + Len(w))

\* /\bw/.test(s)
MatchesWordStart(s, w) ==
    \E i \in 1..(Len(s) + 1) : StartsAt(s, i, w) /\ WordBoundaryAt(s, i)

AlnumSet == UpperSet \cup LowerSet \cup DigitSet

\* index after the run of digits starting at i
SkipDigits(s, i) == SkipClass(s, i, DigitSet)

\* index after the run of [A-Za-z0-9] starting at i
SkipAlnum(s, i) == SkipClass(s, i, AlnumSet)

RECURSIVE JoinFrom(_, _, _)
JoinFrom(strs, i, sep) ==
    IF i > Len(strs) THEN ""
    ELSE IF i = Len(strs) THEN strs[i]
    ELSE strs[i] \o sep \o JoinFrom(strs, i + 1, sep)

\* Array.prototype.join
join(strs, sep) == JoinFrom(strs, 1, sep)

\* Array.prototype.slice(0, n)
slice0(seq, n) == SubSeq(seq, 1, IF Len(seq) < n THEN Len(seq) ELSE n)

\* Array.prototype.find: the first element satisfying Test, as a sequence of 0 or 1 elements
FindFirst(seq, Test(_)) ==
    With(SelectSeq(seq, Test), LAMBDA hit : IF hit = <<>> THEN <<>> ELSE <<hit[1]>>)

(***************************************************************************)
(* Module items and their ordering                                         *)
(***************************************************************************)
NoUrl == ""     \* an absent page_url (null, undefined or ""): falsy in the source

\* insert item x into the position-sorted sequence s behind every item whose
\* position is not greater (Array.prototype.sort is stable)
RECURSIVE InsertByPosition(_, _)
InsertByPosition(s, x) ==
    IF s = <<>> THEN <<x>>
    ELSE IF s[Len(s)].position <= x.position THEN Append(s, x)
    ELSE Append(InsertByPosition(SubSeq(s, 1, Len(s) - 1), x), s[Len(s)])

RECURSIVE SortFrom(_, _)
SortFrom(s, i) ==
    IF i = 0 THEN <<>> ELSE InsertByPosition(SortFrom(s, i - 1), s[i])

\* [...items].sort((a, b) => a.position - b.position)
sortByPosition(s) == SortFrom(s, Len(s))

(***************************************************************************)
(* Text Normalizer                                                         *)
(***************************************************************************)
\* first index j >= i at which s has sub, 0 if none
IndexOfFrom(s, i, sub) ==
    LET hits == {j \in i..(Len(s) - Len(sub) + 1) : StartsAt(s, j, sub)}
    IN IF hits = {} THEN 0 ELSE Least(hits)

\* s.replace(/<tag[\s\S]*?<\/tag>/gi, " ") from index p on (low is s lower-cased);
\* each step jumps to the next match
StripBlockEnd(low, i, tag) ==
    IF StartsAt(low, i, "<" \o tag)
    THEN LET j == IndexOfFrom(low, i + Len(tag) + 1, "</" \o tag \o ">")
         IN IF j > 0 THEN j + Len(tag) + 2 ELSE 0
    ELSE 0

RECURSIVE StripBlockFrom(_, _, _, _)
StripBlockFrom(s, low, p, tag) ==
    With({i \in p..Len(s) : StripBlockEnd(low, i, tag) > 0}, LAMBDA starts :
        IF starts = {} THEN SubSeq(s, p, Len(s))
        ELSE With(Least(starts), LAMBDA i :
                SubSeq(s, p, i - 1) \o " "
                   \o StripBlockFrom(s, low, StripBlockEnd(low, i, tag) + 1, tag)))

stripBlock(s, tag) == StripBlockFrom(s, toLowerCase(s), 1, tag)

\* end index of a match of /<br\s*\/?>/i starting at i, 0 if none
BrMatchEnd(low, i) ==
    IF ~StartsAt(low, i, "<br") THEN 0
    ELSE LET a == SkipSpaces(low, i + 3)
             b == IF Ch(low, a) = "/" THEN a + 1 ELSE a
         IN IF Ch(low, b) = ">" THEN b ELSE 0

RECURSIVE ReplaceBrFrom(_, _, _)
ReplaceBrFrom(s, low, p) ==
    With({i \in p..Len(s) : BrMatchEnd(low, i) > 0}, LAMBDA starts :
        IF starts = {} THEN SubSeq(s, p, Len(s))
        ELSE With(Least(starts), LAMBDA i :
                SubSeq(s, p, i - 1) \o "\n" \o ReplaceBrFrom(s, low, BrMatchEnd(low, i) + 1)))

replaceBr(s) == ReplaceBrFrom(s, toLowerCase(s), 1)

BlockClosers == {"</p>", "</li>", "</h1>", "</h2>", "</h3>", "</h4>", "</h5>", "</h6>", "</div>"}

\* end index of a match of /<\/(p|li|h1|h2|h3|h4|h5|h6|div)>/i starting at i, 0 if none
CloserMatchEnd(low, i) ==
    LET hit == {c \in BlockClosers : StartsAt(low, i, c)}
    IN IF hit = {} THEN 0 ELSE i + Len(CHOOSE c \in hit : TRUE) - 1

\* s.replace(/<\/(p|li|h1|h2|h3|h4|h5|h6|div)>/gi, "\n")
RECURSIVE ReplaceClosersFrom(_, _, _)
ReplaceClosersFrom(s, low, p) ==
    With({i \in p..Len(s) : CloserMatchEnd(low, i) > 0}, LAMBDA starts :
        IF starts = {} THEN SubSeq(s, p, Len(s))
        ELSE With(Least(starts), LAMBDA i :
                SubSeq(s, p, i - 1) \o "\n"
                   \o ReplaceClosersFrom(s, low, CloserMatchEnd(low, i) + 1)))

replaceClosers(s) == ReplaceClosersFrom(s, toLowerCase(s), 1)

\* end index of a match of /<[^>]+>/ starting at i, 0 if none
TagMatchEnd(s, i) ==
    IF Ch(s, i) = "<" /\ i + 1 <= Len(s) /\ Ch(s, i + 1) # ">" THEN IndexOfFrom(s, i + 2, ">") ELSE 0

\* s.replace(/<[^>]+>/g, " ")
RECURSIVE StripTagsFrom(_, _)
StripTagsFrom(s, p) ==
    With({i \in p..Len(s) : TagMatchEnd(s, i) > 0}, LAMBDA starts :
        IF starts = {} THEN SubSeq(s, p, Len(s))
        ELSE With(Least(starts), LAMBDA i :
                SubSeq(s, p, i - 1) \o " " \o StripTagsFrom(s, TagMatchEnd(s, i) + 1)))

\* stripTags replacing the first tag only (the pattern without its g flag)
stripTagsFirstOnly(s) ==
    With({i \in 1..Len(s) : TagMatchEnd(s, i) > 0}, LAMBDA starts :
        IF starts = {} THEN s
        ELSE With(Least(starts), LAMBDA i :
                SubSeq(s, 1, i - 1) \o " " \o SubSeq(s, TagMatchEnd(s, i) + 1, Len(s))))

stripTags(s) == StripTagsFrom(s, 1)

\* the table `named` of decodeHtmlEntities
NamedEntities ==
    [amp |-> "&", lt |-> "<", gt |-> ">", quot |-> "\"", apos |-> "'", nbsp |-> " ",
     ndash |-> "-", mdash |-> "-", rsquo |-> "'", lsquo |-> "'", ldquo |-> "\"",
     rdquo |-> "\"", times |-> "x"]

HexChars == "0123456789abcdef"
HexSet == CharsOf(HexChars)

HexValue(c) == (CHOOSE i \in 1..16 : SubSeq(HexChars, i, i) = c) - 1

\* Number.parseInt(s, radix) of a non-empty string: the value of the longest prefix of
\* digits of the radix, -1 (NaN) when the first character is no digit of the radix
RECURSIVE ParsePrefix(_, _, _, _)
ParsePrefix(s, i, radix, acc) ==
    IF i <= Len(s) /\ Ch(s, i) \in HexSet /\ HexValue(Ch(s, i)) < radix
    THEN ParsePrefix(s, i + 1, radix, acc * radix + HexValue(Ch(s, i)))
    ELSE IF i = 1 THEN -1 ELSE acc

parseInt(s, radix) == ParsePrefix(s, 1, radix, 0)

\* the printable ASCII characters, code points 32..95 and 97..126, in order
AsciiLow == " !\"#$%&'()*+,-./0123456789:;<=>?@ABCDEFGHIJKLMNOPQRSTUVWXYZ[\\]^_"
AsciiHigh == "abcdefghijklmnopqrstuvwxyz{|}~"

OtherChar == "~"     \* stands for every code point outside 9, 10, 32..95, 97..126

\* String.fromCodePoint(code) for a valid code point
fromCodePoint(code) ==
    IF code >= 32 /\ code <= 95 THEN SubSeq(AsciiLow, code - 31, code - 31)
    ELSE IF code >= 97 /\ code <= 126 THEN SubSeq(AsciiHigh, code - 96, code - 96)
    ELSE IF code = 10 THEN "\n"
    ELSE IF code = 9 THEN "\t"
    ELSE OtherChar

\* index after the run of [0-9a-f] (case-insensitive) starting at i
SkipHex(low, i) == SkipClass(low, i, HexSet)

\* index after the run of [a-z] (case-insensitive) starting at i
SkipLetters(low, i) == SkipClass(low, i, LowerSet)

\* index of the ";" ending a match of /&(#x?[0-9a-f]+|[a-z]+);/i that starts at i, 0 if none
EntityMatchEnd(low, i) ==
    IF Ch(low, i) # "&" THEN 0
    ELSE IF Ch(low, i + 1) = "#"
    THEN LET viaX  == IF Ch(low, i + 2) = "x" THEN SkipHex(low, i + 3) ELSE 0
             plain == SkipHex(low, i + 2)
         IN IF viaX > i + 3 /\ Ch(low, viaX) = ";" THEN viaX
            ELSE IF plain > i + 2 /\ Ch(low, plain) = ";" THEN plain
            ELSE 0
    ELSE LET e == SkipLetters(low, i + 1)
         IN IF e > i + 1 /\ Ch(low, e) = ";" THEN e ELSE 0

\* the replacement callback of decodeHtmlEntities (key is the lower-cased entity)
decodeEntity(match, key) ==
    IF StartsAt(key, 1, "#x")
    THEN LET code == parseInt(SubSeq(key, 3, Len(key)), 16)
         IN IF code >= 0 THEN fromCodePoint(code) ELSE match
    ELSE IF StartsAt(key, 1, "#")
    THEN LET code == parseInt(SubSeq(key, 2, Len(key)), 10)
         IN IF code >= 0 THEN fromCodePoint(code) ELSE match
    ELSE IF key \in DOMAIN NamedEntities THEN NamedEntities[key] ELSE match

RECURSIVE DecodeFrom(_, _, _)
DecodeFrom(s, low, p) ==
    With({i \in p..Len(s) : EntityMatchEnd(low, i) > 0}, LAMBDA starts :
        IF starts = {} THEN SubSeq(s, p, Len(s))
        ELSE With(Least(starts), LAMBDA i :
             With(EntityMatchEnd(low, i), LAMBDA e :
                SubSeq(s, p, i - 1) \o decodeEntity(SubSeq(s, i, e), SubSeq(low, i + 1, e - 1))
                   \o DecodeFrom(s, low, e + 1))))

decodeHtmlEntities(s) == DecodeFrom(s, toLowerCase(s), 1)

\* escapeHtml without the replacement of the double quote
EscapeCharKeepQuote(c) ==
    CASE c = "&"  -> "&amp;"
      [] c = "<"  -> "&lt;"
      [] c = ">"  -> "&gt;"
      [] c = "'"  -> "&#39;"
      [] OTHER    -> c

\* the replacement of one character by escapeHtml
EscapeChar(c) ==
    CASE c = "&"  -> "&amp;"
      [] c = "<"  -> "&lt;"
      [] c = ">"  -> "&gt;"
      [] c = "\"" -> "&quot;"
      [] c = "'"  -> "&#39;"
      [] OTHER    -> c

escapeHtml(input) == concatAll([i \in 1..Len(input) |-> EscapeChar(SubSeq(input, i, i))])

toPlainText(html) ==
    With(stripBlock(html, "style"), LAMBDA noStyle :
    With(stripBlock(noStyle, "script"), LAMBDA noScript :
    With(replaceBr(noScript), LAMBDA brs :
    With(replaceClosers(brs), LAMBDA closers :
    With(stripTags(closers), LAMBDA noTags :
    With(decodeHtmlEntities(noTags), LAMBDA decoded :
    With(collapseSpaces(decoded), LAMBDA collapsed :
        trim(collapsed))))))))

(***************************************************************************)
(* Anchored patterns: a pattern is a sequence of elements, matched left to *)
(* right from an index of the lower-cased text (the patterns of the source *)
(* need no backtracking: what follows a repetition never starts with a     *)
(* character of the repeated class)                                        *)
(***************************************************************************)
Lit(v)      == [k |-> "lit", v |-> v]           \* the literal text v
Alt(v)      == [k |-> "alt", v |-> v]           \* (v[1]|v[2]|...)
Opt(v)      == [k |-> "opt", v |-> v]           \* [v]? for a set of characters v
Many(v)     == [k |-> "many", v |-> v]          \* [v]* for a set of characters v
Some(v)     == [k |-> "some", v |-> v]          \* [v]+ for a set of characters v
One(v)      == [k |-> "one", v |-> v]           \* [v] for a set of characters v

\* the index after the match of element e at index i of low, 0 if it does not match
ElementEnd(low, i, e) ==
    CASE e.k = "lit"  -> IF StartsAt(low, i, e.v) THEN i + Len(e.v) ELSE 0
      [] e.k = "alt"  -> LET hits == {a \in 1..Len(e.v) : StartsAt(low, i, e.v[a])}
                         IN IF hits = {} THEN 0 ELSE i + Len(e.v[Least(hits)])
      [] e.k = "opt"  -> IF Ch(low, i) \in e.v THEN i + 1 ELSE i
      [] e.k = "many" -> SkipClass(low, i, e.v)
      [] e.k = "some" -> IF SkipClass(low, i, e.v) > i THEN SkipClass(low, i, e.v) ELSE 0
      [] e.k = "one"  -> IF Ch(low, i) \in e.v THEN i + 1 ELSE 0

\* the index after the match of pat[k..] at index i of low, 0 if it does not match
RECURSIVE MatchFrom(_, _, _, _)
MatchFrom(low, i, pat, k) ==
    IF k > Len(pat) THEN i
    ELSE With(ElementEnd(low, i, pat[k]), LAMBDA e :
            IF e = 0 THEN 0 ELSE MatchFrom(low, e, pat, k + 1))

(***************************************************************************)
(* Module Structure Resolver                                               *)
(***************************************************************************)
\* TASK_HEADER_RE = /^session\s+\d+\s*:\s*task\s+[a-z0-9]/i
TaskHeaderPattern ==
    <<Lit("session"), Some(WhiteSpace), Some(DigitSet), Many(WhiteSpace), Lit(":"),
      Many(WhiteSpace), Lit("task"), Some(WhiteSpace), One(LowerSet \cup DigitSet)>>

\* TASK_HEADER_RE.test(title)
TaskHeaderTest(title) == MatchFrom(toLowerCase(title), 1, TaskHeaderPattern, 1) > 0

normalizeTitle(title) == toLowerCase(trim(title))

IsTeacherNotesHeader(item) ==
    item.type = "SubHeader" /\ normalizeTitle(item.title) = "teachers notes"

IsTaskHeader(item) == item.type = "SubHeader" /\ TaskHeaderTest(item.title)

NoRange == [found |-> FALSE]

\* the range { start, endExclusive }; bounded = FALSE stands for
\* endExclusive = Number.POSITIVE_INFINITY
findTeacherNotesRange(items) ==
    With(sortByPosition(items), LAMBDA sorted :
    With(FindFirst(sorted, IsTeacherNotesHeader), LAMBDA header :
        IF header = <<>> THEN NoRange
        ELSE With(FindFirst(sorted, LAMBDA item :
                      item.type = "SubHeader" /\ item.position > header[1].position),
                  LAMBDA nextSubHeader :
                      IF nextSubHeader = <<>>
                      THEN [found |-> TRUE, start |-> header[1].position,
                            bounded |-> FALSE, endExclusive |-> 0]
                      ELSE [found |-> TRUE, start |-> header[1].position,
                            bounded |-> TRUE, endExclusive |-> nextSubHeader[1].position])))

\* isPositionInRange with the open-ended range (no later SubHeader) taken as empty
isPositionInRangeBoundedOnly(position, range) ==
    IF ~range.found THEN FALSE
    ELSE range.bounded /\ position > range.start /\ position < range.endExclusive

isPositionInRange(position, range) ==
    IF ~range.found THEN FALSE
    ELSE position > range.start /\ (~range.bounded \/ position < range.endExclusive)

\* resolveIntroPages that takes the first two pages whatever the headers
resolveIntroPagesFirstTwo(moduleItems, modulePages) == slice0(modulePages, 2)

\* resolveIntroPages without the slice of the fallback
resolveIntroPagesFallbackAll(moduleItems, modulePages) ==
    With(FindFirst(moduleItems, IsTaskHeader), LAMBDA firstTask :
        IF firstTask = <<>> THEN modulePages
        ELSE SelectSeq(modulePages, LAMBDA page : page.position < firstTask[1].position))

resolveIntroPages(moduleItems, modulePages) ==
    With(FindFirst(moduleItems, IsTaskHeader), LAMBDA firstTask :
        IF firstTask = <<>> THEN slice0(modulePages, 2)
        ELSE SelectSeq(modulePages, LAMBDA page : page.position < firstTask[1].position))

\* TaskPages without the bound at the next task header
TaskPagesUnbounded(headers, i, modulePages) ==
    SelectSeq(modulePages, LAMBDA page : page.position > headers[i].position)

\* the pages collected for headers[i]
TaskPages(headers, i, modulePages) ==
    LET current == headers[i]
        InTask(page) ==
            /\ page.position > current.position
            /\ (i + 1 > Len(headers) \/ page.position < headers[i + 1].position)
    IN SelectSeq(modulePages, InTask)

\* resolveTasks without the pages.length > 0 test
resolveTasksKeepEmpty(moduleItems, modulePages) ==
    With(sortByPosition(SelectSeq(moduleItems, IsTaskHeader)), LAMBDA headers :
        [i \in 1..Len(headers) |->
            [title |-> headers[i].title,
             pages |-> TaskPages(headers, i, modulePages),
             header |-> headers[i]]])

\* a SessionTask { title, pages }; header is the header item the task was
\* made from, kept beside the task for the statements about it
resolveTasks(moduleItems, modulePages) ==
    With(sortByPosition(SelectSeq(moduleItems, IsTaskHeader)), LAMBDA headers :
        SelectSeq([i \in 1..Len(headers) |->
                      [title |-> headers[i].title,
                       pages |-> TaskPages(headers, i, modulePages),
                       header |-> headers[i]]],
                  LAMBDA task : Len(task.pages) > 0))

\* findTeacherNotesInsertionPosition returning the header's own position
findTeacherNotesInsertionPositionAtHeader(items) ==
    With(sortByPosition(items), LAMBDA sorted :
    With(FindFirst(sorted, IsTeacherNotesHeader), LAMBDA teacherHeader :
        IF teacherHeader # <<>> THEN teacherHeader[1].position
        ELSE IF Len(sorted) = 0 THEN 1
        ELSE sorted[1].position))

\* findTeacherNotesInsertionPosition without the sort
findTeacherNotesInsertionPositionUnsorted(items) ==
    With(FindFirst(items, IsTeacherNotesHeader), LAMBDA teacherHeader :
        IF teacherHeader # <<>> THEN teacherHeader[1].position + 1
        ELSE IF Len(items) = 0 THEN 1
        ELSE items[1].position)

findTeacherNotesInsertionPosition(items) ==
    With(sortByPosition(items), LAMBDA sorted :
    With(FindFirst(sorted, IsTeacherNotesHeader), LAMBDA teacherHeader :
        IF teacherHeader # <<>> THEN teacherHeader[1].position + 1
        ELSE IF Len(sorted) = 0 THEN 1
        ELSE sorted[1].position))

\* the filter of buildTeacherNotesForSession that selects the source pages
IsSourcePageItem(item, pageTitleKey, teacherNotesRange) ==
    /\ item.type = "Page"
    /\ item.page_url # NoUrl
    /\ normalizeTitle(item.title) # pageTitleKey
    /\ ~includes(toLowerCase(item.title), "teacher notes")
    /\ ~isPositionInRange(item.position, teacherNotesRange)

\* a SessionPageContext from a module item and the body client.getPage returned
PageContext(item, body) ==
    [title |-> item.title, pageUrl |-> item.page_url, position |-> item.position,
     bodyHtml |-> body, bodyText |-> toPlainText(body)]

\* buildTeacherNotesForSession after module resolution: moduleItems is what
\* listModuleItems returned, bodyOf[url] the body getPage returns for a page
buildModulePages(sortedItems, pageTitle, bodyOf) ==
    With(findTeacherNotesRange(sortedItems), LAMBDA teacherNotesRange :
    With(toLowerCase(trim(pageTitle)), LAMBDA pageTitleKey :
    With(SelectSeq(sortedItems, LAMBDA item : IsSourcePageItem(item, pageTitleKey, teacherNotesRange)),
         LAMBDA pageItems :
            sortByPosition([i \in 1..Len(pageItems) |->
                               PageContext(pageItems[i], bodyOf[pageItems[i].page_url])]))))

\* s.replace(/^pat/i, "")
stripPrefix(s, pat) ==
    With(MatchFrom(toLowerCase(s), 1, pat, 1), LAMBDA e :
        IF e = 0 THEN s ELSE SubSeq(s, e, Len(s)))

RECURSIVE StripPrefixes(_, _, _)
StripPrefixes(s, pats, k) ==
    IF k > Len(pats) THEN s
    ELSE With(stripPrefix(s, pats[k]), LAMBDA next : StripPrefixes(next, pats, k + 1))

(***************************************************************************)
(* Objective/Differentiation Synthesizer: sentences                        *)
(***************************************************************************)
\* the two prefix patterns of cleanupSentence
CleanupPatterns ==
    << <<Lit("hi all"), Many({",", "!"} \cup WhiteSpace)>>,
       <<Alt(<<"the task", "task", "keypad circuit">>), Many(WhiteSpace), Opt({":", "-"}),
         Many(WhiteSpace)>> >>

cleanupSentence(input) ==
    With(StripPrefixes(input, CleanupPatterns, 1), LAMBDA stripped :
    With(collapseSpaces(stripped), LAMBDA collapsed :
        trim(collapsed)))

SentenceEnds == {".", "!", "?"}

EndsSentence(s) == Len(s) > 0 /\ SubSeq(s, Len(s), Len(s)) \in SentenceEnds

\* normalized.split(/(?<=[.!?])\s+/) of a text whose white space is single spaces:
\* the cut points are the spaces that follow a sentence end
splitSentences(normalized) ==
    LET n == Len(normalized)
        cuts == {i \in 2..n : SubSeq(normalized, i, i) = " " /\ SubSeq(normalized, i - 1, i - 1) \in SentenceEnds}
        starts == {1} \cup {i + 1 : i \in cuts}
        EndOf(a) == LET later == {i \in cuts : i >= a} IN IF later = {} THEN n ELSE Least(later) - 1
        Nth(S, k) == CHOOSE x \in S : Cardinality({y \in S : y < x}) = k - 1
    IN [k \in 1..Cardinality(starts) |->
          LET a == Nth(starts, k) IN IF a > EndOf(a) THEN "" ELSE SubSeq(normalized, a, EndOf(a))]

NoSentence == <<>>     \* undefined; a found sentence s is <<s>>

firstSentence(text) ==
    With(trim(collapseSpaces(text)), LAMBDA normalized :
        IF normalized = "" THEN NoSentence
        ELSE With(splitSentences(normalized), LAMBDA parts :
             With([k \in 1..Len(parts) |-> cleanupSentence(parts[k])], LAMBDA cleaned :
             With({k \in 1..Len(parts) : Len(cleaned[k]) >= 20}, LAMBDA long :
                IF long # {}
                THEN With(cleaned[Least(long)], LAMBDA sentence :
                        IF EndsSentence(sentence) THEN <<sentence>> ELSE <<sentence \o ".">>)
                ELSE With(cleanupSentence(normalized), LAMBDA fallback :
                        IF Len(fallback) > 0 THEN <<fallback \o ".">> ELSE NoSentence)))))

\* the anchored sentence openers toOutcomeBullet strips, in order
OpenerPatterns ==
    << <<Lit("students should be able to"), Many(WhiteSpace)>>,
       <<Lit("students should"), Many(WhiteSpace)>>,
       <<Lit("students "), Alt(<<"will", "can">>), Many(WhiteSpace)>>,
       <<Lit("in this "), Alt(<<"task", "session">>), Opt({","}), Many(WhiteSpace),
         Alt(<<"you", "students">>), Many(WhiteSpace), Alt(<<"will", "should">>), Many(WhiteSpace)>>,
       <<Lit("you "), Alt(<<"will", "should">>), Many(WhiteSpace)>>,
       <<Lit("in this "), Alt(<<"task", "session">>), Opt({","}), Many(WhiteSpace)>>,
       <<Lit("this "), Alt(<<"task", "session">>), Some(WhiteSpace), Alt(<<"is", "covers">>),
         Many(WhiteSpace)>>,
       <<Lit("now"), Opt({","}), Many(WhiteSpace)>> >>

\* s.replace(/\bw\b/gi, to) when all is TRUE, s.replace(/\bw\b/i, to) when it is FALSE
RECURSIVE ReplaceWordFrom(_, _, _, _, _, _)
ReplaceWordFrom(s, low, p, w, to, all) ==
    With({i \in p..Len(s) :
            StartsAt(low, i, w) /\ WordBoundaryAt(low, i) /\ WordBoundaryAt(low, i + Len(w))},
         LAMBDA starts :
            IF starts = {} THEN SubSeq(s, p, Len(s))
            ELSE With(Least(starts), LAMBDA i :
                    SubSeq(s, p, i - 1) \o to \o
                    (IF all THEN ReplaceWordFrom(s, low, i + Len(w), w, to, all)
                     ELSE SubSeq(s, i + Len(w), Len(s)))))

replaceWord(s, w, to, all) == ReplaceWordFrom(s, toLowerCase(s), 1, w, to, all)

toOutcomeBullet(input) ==
    With(cleanupSentence(input), LAMBDA clean :
    With(StripPrefixes(clean, OpenerPatterns, 1), LAMBDA stripped :
    With(replaceWord(stripped, "your", "their", TRUE), LAMBDA their :
    With(replaceWord(their, "a lcd", "an LCD", FALSE), LAMBDA anLcd :
    With(trim(collapseSpaces(anLcd)), LAMBDA cleaned :
        IF cleaned = "" THEN "Complete the activity and explain how it works."
        ELSE With(toUpperCase(SubSeq(cleaned, 1, 1)) \o SubSeq(cleaned, 2, Len(cleaned)),
                  LAMBDA normalized :
                      (IF EndsSentence(normalized)
                       THEN SubSeq(normalized, 1, Len(normalized) - 1)
                       ELSE normalized) \o "."))))))

NoHeader == <<>>     \* undefined; a parsed header h is <<h>>

\* the parts of /^(Session\s+\d+\s*):\s*Task\s+([A-Za-z0-9]+)/i before each group end
SessionLabelPattern == <<Lit("session"), Some(WhiteSpace), Some(DigitSet), Many(WhiteSpace)>>
TaskLabelLead == <<Lit(":"), Many(WhiteSpace), Lit("task"), Some(WhiteSpace)>>

\* input.trim().match(/^(Session\s+\d+\s*):\s*Task\s+([A-Za-z0-9]+)/i)
parseTaskHeader(input) ==
    With(trim(input), LAMBDA t :
    With(toLowerCase(t), LAMBDA low :
    With(MatchFrom(low, 1, SessionLabelPattern, 1), LAMBDA colon :
    With(IF colon = 0 THEN 0 ELSE MatchFrom(low, colon, TaskLabelLead, 1), LAMBDA a :
    With(IF a = 0 THEN 0 ELSE SkipAlnum(low, a), LAMBDA b :
        IF b > a
        THEN << [sessionLabel |-> trim(collapseSpaces(SubSeq(t, 1, colon - 1))),
                 taskLabel |-> toUpperCase(SubSeq(t, a, b - 1))] >>
        ELSE NoHeader)))))

\* dedupe without the seen test
dedupeNone(values) ==
    SelectSeq([i \in 1..Len(values) |-> trim(collapseSpaces(values[i]))], LAMBDA v : v # "")

\* dedupe(values): whitespace-normalized values, first of each lower-cased key
RECURSIVE DedupeFrom(_, _, _)
DedupeFrom(values, i, seen) ==
    IF i > Len(values) THEN <<>>
    ELSE With(trim(collapseSpaces(values[i])), LAMBDA normalized :
         With(toLowerCase(normalized), LAMBDA key :
            IF normalized = "" \/ key \in seen THEN DedupeFrom(values, i + 1, seen)
            ELSE <<normalized>> \o DedupeFrom(values, i + 1, seen \cup {key})))

dedupe(values) == DedupeFrom(values, 1, {})

NoBullet == <<>>     \* undefined; a bullet b is <<b>>

\* buildTaskSequenceObjective comparing the session labels as written
buildTaskSequenceObjectiveCaseSensitive(tasks) ==
    IF Len(tasks) = 0 THEN NoBullet
    ELSE With([i \in 1..Len(tasks) |-> parseTaskHeader(tasks[i].title)], LAMBDA headers :
         With(SelectSeq(headers, LAMBDA h : h # NoHeader), LAMBDA parsed :
         With("Complete the session task sequence: "
                 \o join([i \in 1..Len(tasks) |-> tasks[i].title], ", ") \o ".", LAMBDA generic :
            IF Len(parsed) = Len(tasks)
            THEN With(parsed[1][1].sessionLabel, LAMBDA sessionLabel :
                    IF \A i \in 1..Len(parsed) : parsed[i][1].sessionLabel = sessionLabel
                    THEN <<"Complete " \o sessionLabel \o ": Task "
                              \o join([i \in 1..Len(parsed) |-> parsed[i][1].taskLabel], "/") \o ".">>
                    ELSE <<generic>>)
            ELSE <<generic>>)))

buildTaskSequenceObjective(tasks) ==
    IF Len(tasks) = 0 THEN NoBullet
    ELSE With([i \in 1..Len(tasks) |-> parseTaskHeader(tasks[i].title)], LAMBDA headers :
         With(SelectSeq(headers, LAMBDA h : h # NoHeader), LAMBDA parsed :
         With("Complete the session task sequence: "
                 \o join([i \in 1..Len(tasks) |-> tasks[i].title], ", ") \o ".", LAMBDA generic :
            IF Len(parsed) = Len(tasks)
            THEN With(parsed[1][1].sessionLabel, LAMBDA sessionLabel :
                    IF \A i \in 1..Len(parsed) :
                          toLowerCase(parsed[i][1].sessionLabel) = toLowerCase(sessionLabel)
                    THEN <<"Complete " \o sessionLabel \o ": Task "
                              \o join([i \in 1..Len(parsed) |-> parsed[i][1].taskLabel], "/") \o ".">>
                    ELSE <<generic>>)
            ELSE <<generic>>)))

ApplyFiller(sessionName) ==
    "Apply the core skills from " \o sessionName \o " with increasing independence."

TroubleshootFiller == "Troubleshoot one issue at a time before requesting direct help."

\* objectiveCandidates without the second filler bullet
objectiveCandidatesOneFiller(introPages, tasks, sessionName) ==
    With(buildTaskSequenceObjective(tasks), LAMBDA taskSequence :
    With(firstSentence(join([i \in 1..Len(introPages) |-> introPages[i].bodyText], " ")),
         LAMBDA introSentence :
    With(IF introSentence # NoSentence
         THEN Append(taskSequence, toOutcomeBullet(introSentence[1]))
         ELSE taskSequence, LAMBDA p2 :
        IF Len(p2) < 3 THEN Append(p2, ApplyFiller(sessionName)) ELSE p2)))

\* the points buildObjectivePoints has pushed before dedupe and slice
objectiveCandidates(introPages, tasks, sessionName) ==
    With(buildTaskSequenceObjective(tasks), LAMBDA taskSequence :
    With(firstSentence(join([i \in 1..Len(introPages) |-> introPages[i].bodyText], " ")),
         LAMBDA introSentence :
    With(IF introSentence # NoSentence
         THEN Append(taskSequence, toOutcomeBullet(introSentence[1]))
         ELSE taskSequence, LAMBDA p2 :
    With(IF Len(p2) < 3 THEN Append(p2, ApplyFiller(sessionName)) ELSE p2, LAMBDA p3 :
        IF Len(p3) < 3 THEN Append(p3, TroubleshootFiller) ELSE p3))))

buildObjectivePoints(introPages, tasks, sessionName) ==
    slice0(dedupe(objectiveCandidates(introPages, tasks, sessionName)), 3)

buildTaskPoints(task) ==
    With([i \in 1..Len(task.pages) |->
            With(firstSentence(task.pages[i].bodyText), LAMBDA sentence :
                IF sentence # NoSentence THEN toOutcomeBullet(sentence[1])
                ELSE "Complete \"" \o task.pages[i].title
                        \o "\" and verify it works before moving on.")],
         LAMBDA points : slice0(dedupe(points), 3))

(***************************************************************************)
(* Content Classifier                                                      *)
(***************************************************************************)
\* a keyword pattern: the words matched as /\bw\b/i, the words matched as /\bw/i
Keyword(words, starts, label) == [words |-> words, starts |-> starts, label |-> label]

SOFTWARE_KEYWORDS ==
    << Keyword({"arduino ide"}, {}, "Arduino IDE"),
       Keyword({"serial monitor"}, {}, "Serial Monitor"),
       Keyword({"blender"}, {}, "Blender"),
       Keyword({"tinkercad"}, {}, "Tinkercad"),
       Keyword({"web browser"}, {}, "Web browser (Chrome preferred)") >>

HARDWARE_KEYWORDS ==
    << Keyword({"lcd"}, {}, "LCD screen module"),
       Keyword({"3x4", "matrix keypad", "keypad"}, {}, "3x4 matrix keypad"),
       Keyword({"esp32", "nodemcu"}, {}, "NodeMCU ESP32 board"),
       Keyword({"breadboard"}, {}, "Breadboard"),
       Keyword({}, {"jumper wire"}, "Jumper wires"),
       Keyword({"usb"}, {}, "USB cable") >>

SoftwareFallback == <<"Arduino IDE", "Serial Monitor">>
HardwareFallback == <<"LCD screen module", "3x4 matrix keypad", "NodeMCU ESP32 board">>

\* entry.pattern.test(text) for a case-insensitive keyword pattern
KeywordTest(entry, text) ==
    LET low == toLowerCase(text)
    IN \/ \E w \in entry.words : MatchesWord(low, w)
       \/ \E w \in entry.starts : MatchesWordStart(low, w)

\* detectComponents keeping only the first matching pattern
detectComponentsFirstOnly(text, patterns, fallback) ==
    With(SelectSeq(patterns, LAMBDA entry : KeywordTest(entry, text)), LAMBDA hits :
    With([i \in 1..Len(hits) |-> hits[i].label], LAMBDA found :
        IF Len(found) = 0 THEN fallback ELSE <<found[1]>>))

\* detectComponents without the fallback list
detectComponentsNoFallback(text, patterns, fallback) ==
    With(SelectSeq(patterns, LAMBDA entry : KeywordTest(entry, text)), LAMBDA hits :
        dedupe([i \in 1..Len(hits) |-> hits[i].label]))

detectComponents(text, patterns, fallback) ==
    With(SelectSeq(patterns, LAMBDA entry : KeywordTest(entry, text)), LAMBDA hits :
    With([i \in 1..Len(hits) |-> hits[i].label], LAMBDA found :
        IF Len(found) = 0 THEN fallback ELSE dedupe(found)))

WiringIssue ==
    [issue |-> "Incorrect pin wiring between the board, LCD, and keypad.",
     solution |-> "Have students trace each wire against the diagram one connection at a time, then re-test after each correction."]

UploadIssue ==
    [issue |-> "Sketch upload errors caused by board/port configuration mistakes.",
     solution |-> "Check board model, selected port, cable quality, and close any app using the serial connection before retrying."]

KeypadIssue ==
    [issue |-> "Incorrect row/column mapping in keypad code.",
     solution |-> "Compare keypad wiring to the row/column array in code and test each key in Serial Monitor to confirm mapping."]

LcdIssue ==
    [issue |-> "LCD output not displaying as expected.",
     solution |-> "Verify power and data pins, adjust LCD contrast, and run a minimal known-good test sketch first."]

MultipleChangesIssue ==
    [issue |-> "Students make multiple changes at once and lose track of the cause of errors.",
     solution |-> "Enforce one-change-at-a-time debugging and require a quick test after each change."]

CheckpointIssue ==
    [issue |-> "Students forget to save a known-good version before experimenting.",
     solution |-> "Set mandatory checkpoint saves after each working milestone before extensions."]

\* the trigger tests of buildCommonIssues on the lower-cased full text
HasWiring(lower) == MatchesWord(lower, "wiring")
HasUpload(lower) == MatchesWord(lower, "upload") \/ MatchesWord(lower, "compile")
HasKeypad(lower) == MatchesWord(lower, "keypad")
HasLcd(lower)    == MatchesWord(lower, "lcd")

RECURSIVE DedupeIssuesFrom(_, _, _)
DedupeIssuesFrom(values, i, seen) ==
    IF i > Len(values) THEN <<>>
    ELSE With(trim(collapseSpaces(values[i].issue)), LAMBDA issue :
         With(trim(collapseSpaces(values[i].solution)), LAMBDA solution :
         With(toLowerCase(issue), LAMBDA key :
            IF issue = "" \/ solution = "" \/ key \in seen
            THEN DedupeIssuesFrom(values, i + 1, seen)
            ELSE <<[issue |-> issue, solution |-> solution]>>
                    \o DedupeIssuesFrom(values, i + 1, seen \cup {key}))))

dedupeIssues(values) == DedupeIssuesFrom(values, 1, {})

\* paddingIssues asking for more than one task before the first generic issue
paddingIssuesTwoTasks(matched, taskCount) ==
    LET i1 == IF matched < 3 /\ taskCount > 1 THEN <<MultipleChangesIssue>> ELSE <<>>
        i2 == IF matched + Len(i1) < 4 THEN <<CheckpointIssue>> ELSE <<>>
    IN i1 \o i2

\* how many generic issues buildCommonIssues pads with after `matched` trigger issues
paddingIssues(matched, taskCount) ==
    LET i1 == IF matched < 3 /\ taskCount > 0 THEN <<MultipleChangesIssue>> ELSE <<>>
        i2 == IF matched + Len(i1) < 4 THEN <<CheckpointIssue>> ELSE <<>>
    IN i1 \o i2

\* buildCommonIssues with the keypad check ahead of the wiring check
buildCommonIssuesKeypadFirst(tasks, fullText) ==
    With(toLowerCase(fullText), LAMBDA lower :
    With((IF HasKeypad(lower) THEN <<KeypadIssue>> ELSE <<>>)
            \o (IF HasWiring(lower) THEN <<WiringIssue>> ELSE <<>>)
            \o (IF HasUpload(lower) THEN <<UploadIssue>> ELSE <<>>)
            \o (IF HasLcd(lower) THEN <<LcdIssue>> ELSE <<>>), LAMBDA matched :
        slice0(dedupeIssues(matched \o paddingIssues(Len(matched), Len(tasks))), 4)))

buildCommonIssues(tasks, fullText) ==
    With(toLowerCase(fullText), LAMBDA lower :
    With((IF HasWiring(lower) THEN <<WiringIssue>> ELSE <<>>)
            \o (IF HasUpload(lower) THEN <<UploadIssue>> ELSE <<>>)
            \o (IF HasKeypad(lower) THEN <<KeypadIssue>> ELSE <<>>)
            \o (IF HasLcd(lower) THEN <<LcdIssue>> ELSE <<>>), LAMBDA matched :
        slice0(dedupeIssues(matched \o paddingIssues(Len(matched), Len(tasks))), 4)))

(***************************************************************************)
(* Differentiation guidance                                                *)
(***************************************************************************)
\* /\bhow\s+.+\s+work/.test(s): 'how' at a word boundary, white space, at
\* least one character other than a line break, white space, 'work'
HowWorkTest(s) ==
    \E i \in 1..Len(s) :
        /\ StartsAt(s, i, "how") /\ WordBoundaryAt(s, i)
        /\ \E a \in (i + 3)..Len(s) : \E b \in (a + 1)..Len(s) : \E j \in (b + 2)..Len(s) :
              /\ \A k \in (i + 3)..a : IsSpace(Ch(s, k))
              /\ \A k \in (a + 1)..b : Ch(s, k) # "\n"
              /\ \A k \in (b + 1)..(j - 1) : IsSpace(Ch(s, k))
              /\ StartsAt(s, j, "work")

\* the patterns of buildTaskDifferentiation: /\bw\b/i for a word w, and the
\* how-it-works pattern
WordPattern(w) == [kind |-> "word", word |-> w]
HowWorkPattern == [kind |-> "howWork", word |-> ""]

PatternTest(pattern, text) ==
    With(toLowerCase(text), LAMBDA low :
        IF pattern.kind = "word" THEN MatchesWord(low, pattern.word) ELSE HowWorkTest(low))

matchesAny(text, patterns) == \E i \in DOMAIN patterns : PatternTest(patterns[i], text)

CustomCharacterPatterns == <<WordPattern("custom"), WordPattern("character")>>
KeypadPatterns == <<WordPattern("keypad"), WordPattern("3x4"), WordPattern("matrix")>>
TheoryPatterns == <<HowWorkPattern, WordPattern("theory"), WordPattern("concept")>>
WiringOrLcdPatterns == <<WordPattern("wiring"), WordPattern("lcd")>>

CustomCharacterPair ==
    [beginner |-> "Edit one provided custom character pattern (for example, change a smiley face) and display it correctly on the LCD.",
     extension |-> "Design two original custom characters and alternate them as a short animation or status indicator."]

KeypadPair ==
    [beginner |-> "Read one key press in Serial Monitor and verify each key prints the correct value.",
     extension |-> "Build a 4-digit PIN check with a clear/reset key and a simple lockout after three incorrect attempts."]

TheoryPair ==
    [beginner |-> "Label the key LCD or circuit pins used in class and explain one function for each pin.",
     extension |-> "Predict how changing one parameter (for example contrast or delay) will affect output, then test and record the result."]

WiringPair ==
    [beginner |-> "Follow the class wiring diagram exactly, then upload a fixed message such as HELLO to confirm the setup works.",
     extension |-> "Modify the sketch to rotate between two messages or show a simple counter updated every second."]

GenericPair ==
    [beginner |-> "Make one small tweak to the working example (text, delay, or one variable) and verify the result.",
     extension |-> "Add one extra feature of your choice and explain what changed in your code or wiring."]

\* const titleContext
TitleContext(task) ==
    toLowerCase(task.title \o " "
                \o join([i \in 1..Len(task.pages) |-> task.pages[i].title], " "))

\* const context
TaskContext(task) ==
    toLowerCase(task.title \o " "
                \o join([i \in 1..Len(task.pages) |-> task.pages[i].title], " ") \o " "
                \o join([i \in 1..Len(task.pages) |-> task.pages[i].bodyText], " "))

\* buildTaskDifferentiation with the keypad check ahead of the custom-character check
buildTaskDifferentiationKeypadFirst(task) ==
    With(TaskContext(task), LAMBDA context :
    With(TitleContext(task), LAMBDA titleContext :
        IF matchesAny(context, KeypadPatterns) THEN KeypadPair
        ELSE IF matchesAny(context, CustomCharacterPatterns) THEN CustomCharacterPair
        ELSE IF matchesAny(titleContext, TheoryPatterns) THEN TheoryPair
        ELSE IF matchesAny(context, WiringOrLcdPatterns) THEN WiringPair
        ELSE GenericPair))

buildTaskDifferentiation(task) ==
    With(TaskContext(task), LAMBDA context :
    With(TitleContext(task), LAMBDA titleContext :
        IF matchesAny(context, CustomCharacterPatterns) THEN CustomCharacterPair
        ELSE IF matchesAny(context, KeypadPatterns) THEN KeypadPair
        ELSE IF matchesAny(titleContext, TheoryPatterns) THEN TheoryPair
        ELSE IF matchesAny(context, WiringOrLcdPatterns) THEN WiringPair
        ELSE GenericPair))

(***************************************************************************)
(* Notes Renderer                                                          *)
(***************************************************************************)
TEACHER_NOTES_SYSTEM_RULES ==
    [sessionObjectiveLead |-> "By the end of the session, students should be able to:",
     sessionTeacherFocus |-> "Encourage students to explain their thinking, test ideas independently, and iterate before asking for direct fixes.",
     taskTeacherFocus |-> "Prompt students to predict outcomes, test one change at a time, and justify their debugging decisions.",
     troubleshootingClose |-> "Keep students in a troubleshooting cycle: inspect, test, adjust, then re-test."]

\* the lines of the blocks f[lo], ..., f[hi], in order
RECURSIVE LinesOfRange(_, _, _)
LinesOfRange(f, lo, hi) ==
    IF lo > hi THEN <<>>
    ELSE IF lo = hi THEN f[lo]
    ELSE LET mid == (lo + hi) \div 2
         IN LinesOfRange(f, lo, mid) \o LinesOfRange(f, mid + 1, hi)

buildTaskSummary(task) ==
    "Outcome for this task: complete the activities in "
        \o join([i \in 1..Len(task.pages) |-> task.pages[i].title], ", ") \o "."

\* the first line of the document renderTeacherNotesHtml returns
renderHeading(pageTitle) == "<h2>" \o escapeHtml(pageTitle) \o "</h2>"

\* one list line per value
renderListItems(values) ==
    [i \in 1..Len(values) |-> "<li><p>" \o escapeHtml(values[i]) \o "</p></li>"]

\* the lines of one task section
renderTask(task) ==
    With(buildTaskPoints(task), LAMBDA taskPoints :
    With(buildTaskDifferentiation(task), LAMBDA differentiation :
        << "<hr />",
           "<h3>" \o escapeHtml(task.title) \o "</h3>",
           "<p>" \o escapeHtml(buildTaskSummary(task)) \o "</p>" >>
        \o (IF Len(taskPoints) > 0
            THEN <<"<p>Key points to reinforce:</p>", "<ul>">>
                    \o renderListItems(taskPoints) \o <<"</ul>">>
            ELSE <<>>)
        \o << "<p><strong>Differentiation:</strong></p>",
              "<ul>",
              "<li><p><strong>Beginners (Year 7):</strong> "
                  \o escapeHtml(differentiation.beginner) \o "</p></li>",
              "<li><p><strong>Extension (confident students / Year 10):</strong> "
                  \o escapeHtml(differentiation.extension) \o "</p></li>",
              "</ul>",
              "<p><strong>Teacher focus:</strong> "
                  \o escapeHtml(TEACHER_NOTES_SYSTEM_RULES.taskTeacherFocus) \o "</p>" >>))

\* the lines of one common issue
renderIssue(issue) ==
    << "<li>",
       "<p>" \o escapeHtml(issue.issue) \o "</p>",
       "<ul>",
       "<li><p><strong>Solution:</strong> " \o escapeHtml(issue.solution) \o "</p></li>",
       "</ul>",
       "</li>" >>

\* the lines renderTeacherNotesHtml pushes
renderTeacherNotesLines(pageTitle, sessionName, moduleItems, modulePages) ==
    With(resolveIntroPages(moduleItems, modulePages), LAMBDA introPages :
    With(resolveTasks(moduleItems, modulePages), LAMBDA tasks :
    With(join([i \in 1..Len(modulePages) |-> modulePages[i].bodyText], "\n"), LAMBDA fullText :
    With(buildObjectivePoints(introPages, tasks, sessionName), LAMBDA objectivePoints :
    With(detectComponents(fullText, SOFTWARE_KEYWORDS, SoftwareFallback), LAMBDA software :
    With(detectComponents(fullText, HARDWARE_KEYWORDS, HardwareFallback), LAMBDA hardware :
    With(buildCommonIssues(tasks, fullText), LAMBDA commonIssues :
        << renderHeading(pageTitle),
           "<h3>Main Session Objective</h3>",
           "<p>" \o escapeHtml(TEACHER_NOTES_SYSTEM_RULES.sessionObjectiveLead) \o "</p>",
           "<ul>" >>
        \o renderListItems(objectivePoints)
        \o << "</ul>",
              "<p><strong>Teacher focus:</strong> "
                  \o escapeHtml(TEACHER_NOTES_SYSTEM_RULES.sessionTeacherFocus) \o "</p>",
              "<hr />",
              "<h3>Components &amp; Software Required</h3>",
              "<p><strong>Software:</strong></p>",
              "<ul>" >>
        \o renderListItems(software)
        \o << "</ul>", "<p><strong>Hardware:</strong></p>", "<ul>" >>
        \o renderListItems(hardware)
        \o << "</ul>" >>
        \o LinesOfRange([i \in 1..Len(tasks) |-> renderTask(tasks[i])], 1, Len(tasks))
        \o << "<hr />", "<h3>Most Common Issues</h3>", "<ul>" >>
        \o LinesOfRange([i \in 1..Len(commonIssues) |-> renderIssue(commonIssues[i])],
                        1, Len(commonIssues))
        \o << "</ul>",
              "<p>" \o escapeHtml(TEACHER_NOTES_SYSTEM_RULES.troubleshootingClose) \o "</p>" >>)))))))

\* lines.join("\n")
renderTeacherNotesHtml(pageTitle, sessionName, moduleItems, modulePages) ==
    join(renderTeacherNotesLines(pageTitle, sessionName, moduleItems, modulePages), "\n")

(***************************************************************************)
(* Structure runs: buildTeacherNotesForSession over listed modules         *)
(***************************************************************************)
\* the kinds of module item a listed module is made of: title, type, page_url
ItemKinds ==
    { [title |-> "Teachers Notes",     type |-> "SubHeader", page_url |-> NoUrl],
      [title |-> "Session 03: Task A", type |-> "SubHeader", page_url |-> NoUrl],
      [title |-> "session 3 :task b",  type |-> "SubHeader", page_url |-> NoUrl],
      [title |-> "Resources",          type |-> "SubHeader", page_url |-> NoUrl],
      [title |-> "Intro",              type |-> "Page",      page_url |-> "intro"],
      [title |-> "Task A Page",        type |-> "Page",      page_url |-> "task-a-page"],
      [title |-> "Loose",              type |-> "Page",      page_url |-> NoUrl] }

\* the target page titles of the structure runs
BuildPageTitles == {"Notes", " INTRO "}

\* the page bodies of the course, by page url
PageBody ==
    [u \in {"intro", "task-a-page"} |-> IF u = "intro" THEN "<p>Hi</p>" ELSE "A&amp;B"]

\* the module with kinds[i] at position i, as the platform lists it
ListedModule(kinds, order) ==
    LET n == Len(kinds)
        at(i) == [id |-> 100 + i, title |-> kinds[i].title, type |-> kinds[i].type,
                  position |-> i, page_url |-> kinds[i].page_url]
    IN [j \in 1..n |-> IF order = "asc" THEN at(j) ELSE at(n + 1 - j)]

NoResult == [built |-> FALSE]

\* the TeacherNotesBuildResult, with the intro pages and tasks that
\* renderTeacherNotesHtml resolves from it; the heading line stands for notesHtml
BuildResult(listed, pageTitle, bodyOf) ==
    With(sortByPosition(listed), LAMBDA sortedItems :
    With(buildModulePages(sortedItems, pageTitle, bodyOf), LAMBDA modulePages :
        [built |-> TRUE,
         moduleItems |-> sortedItems,
         modulePages |-> modulePages,
         introPages |-> resolveIntroPages(sortedItems, modulePages),
         tasks |-> resolveTasks(sortedItems, modulePages),
         notesHtml |-> renderHeading(pageTitle),
         insertionPosition |-> findTeacherNotesInsertionPosition(sortedItems)]))

Idle == [idle |-> TRUE]

InitBuild ==
    /\ courseQuizzes = Idle /\ create = Idle
    /\ tIn = Idle /\ tOut = Idle
    /\ coursePages = Idle /\ sessionModule = Idle /\ cli = Idle /\ first = Idle
    /\ \E n \in 0..MaxItems : \E kinds \in [1..n -> ItemKinds] :
       \E order \in (IF n > 1 THEN {"asc", "desc"} ELSE {"asc"}) :
       \E title \in BuildPageTitles :
          bIn = [listed |-> ListedModule(kinds, order), pageTitle |-> title]
    /\ bOut = NoResult

Build ==
    /\ ~bOut.built
    /\ bOut' = BuildResult(bIn.listed, bIn.pageTitle, PageBody)
    /\ UNCHANGED <<bIn, textVars, cliVars, quizVars>>

NextBuild == Build

SpecBuild == InitBuild /\ [][NextBuild]_vars

(***************************************************************************)
(* Statements about the structure runs (specification SpecBuild)           *)
(***************************************************************************)
ListedItems == {bIn.listed[i] : i \in DOMAIN bIn.listed}

SubHeaders == {item \in ListedItems : item.type = "SubHeader"}

\* the trimmed, lower-cased title
TitleKey(title) == toLowerCase(trim(title))

TeachersNotesHeaders == {h \in SubHeaders : TitleKey(h.title) = "teachers notes"}

\* the Teachers Notes SubHeader: the first one in display order
FirstTeachersNotes ==
    {h \in TeachersNotesHeaders : \A g \in TeachersNotesHeaders : h.position <= g.position}

\* position lies strictly between the Teachers Notes SubHeader and the next
\* SubHeader of any kind (the end of the module when there is none)
InsideTeachersNotes(position) ==
    \E h \in FirstTeachersNotes :
        /\ position > h.position
        /\ \A s \in SubHeaders : s.position > h.position => position < s.position

BuiltPages == {bOut.modulePages[k] : k \in DOMAIN bOut.modulePages}

BuiltTasks == {bOut.tasks[k] : k \in DOMAIN bOut.tasks}

TaskHeaders == {item \in ListedItems : IsTaskHeader(item)}

NextTaskHeaders(h) == {g \in TaskHeaders : g.position > h.position}

\* the source pages between task header h and the next task header (or the end)
PagesUnder(h) ==
    {page \in BuiltPages :
        page.position > h.position /\ \A g \in NextTaskHeaders(h) : page.position < g.position}

TitlesOf(pages) == [i \in DOMAIN pages |-> pages[i].title]

PositionsOf(items) == {item.position : item \in items}

\* C1: the modulePages of a build contain no page whose trimmed, lower-cased title
\* equals the trimmed, lower-cased target page title, and no page positioned strictly
\* between the Teachers Notes SubHeader and the next SubHeader (or the end of the module)
C1_SourcePagesExcludeNotes ==
    bOut.built =>
        \A page \in BuiltPages :
            /\ TitleKey(page.title) # TitleKey(bIn.pageTitle)
            /\ ~InsideTeachersNotes(page.position)

\* a build that kept a page while the module also holds a page titled like the
\* target and another page inside the Teachers Notes range
C1_Witness ==
    /\ bOut.built
    /\ BuiltPages # {}
    /\ \E item \in ListedItems :
          /\ item.type = "Page" /\ item.page_url # NoUrl
          /\ TitleKey(item.title) = TitleKey(bIn.pageTitle)
    /\ \E item \in ListedItems :
          /\ item.type = "Page" /\ item.page_url # NoUrl
          /\ TitleKey(item.title) # TitleKey(bIn.pageTitle)
          /\ InsideTeachersNotes(item.position)

\* C2: resolveTasks returns no task with an empty page list: a task header with no
\* page between it and the next task header contributes no task
C2_NoEmptyTask ==
    bOut.built =>
        /\ \A task \in BuiltTasks : Len(task.pages) > 0
        /\ \A h \in TaskHeaders :
              PagesUnder(h) = {} => \A task \in BuiltTasks : task.header # h

\* a build with a task, from a module that also has a task header without pages
C2_Witness ==
    /\ bOut.built
    /\ BuiltTasks # {}
    /\ \E h \in TaskHeaders : PagesUnder(h) = {}

\* C3: the pages of every task lie strictly after the task's header and strictly
\* before the next task header, and the tasks are in ascending order of header position
C3_TaskPagesBounded ==
    bOut.built =>
        /\ \A task \in BuiltTasks :
              /\ task.header \in TaskHeaders
              /\ task.title = task.header.title
              /\ \A i \in DOMAIN task.pages :
                    /\ task.pages[i].position > task.header.position
                    /\ \A g \in NextTaskHeaders(task.header) :
                          task.pages[i].position < g.position
        /\ \A j, k \in DOMAIN bOut.tasks :
              j < k => bOut.tasks[j].header.position < bOut.tasks[k].header.position

\* a build with two tasks from a module listed in descending order
C3_Witness ==
    /\ bOut.built
    /\ Len(bOut.tasks) = 2
    /\ bIn.listed[1].position > 1

ScenarioTitles == <<"Teachers Notes", "Intro", "Session 03: Task A", "Task A Page">>
ScenarioTypes == <<"SubHeader", "Page", "SubHeader", "Page">>

\* the listed module is the module of the scenario, and the target title is the
\* title of none of its pages
IsScenario ==
    /\ Len(bIn.listed) = Len(ScenarioTitles)
    /\ \A i \in DOMAIN ScenarioTitles :
          \E item \in ListedItems :
              /\ item.position = i
              /\ item.title = ScenarioTitles[i]
              /\ item.type = ScenarioTypes[i]
    /\ \A i \in DOMAIN ScenarioTitles : TitleKey(bIn.pageTitle) # TitleKey(ScenarioTitles[i])

\* the one task of the scenario and its insertion position
ScenarioTaskAndPosition ==
    /\ Len(bOut.tasks) = 1
    /\ bOut.tasks[1].title = "Session 03: Task A"
    /\ TitlesOf(bOut.tasks[1].pages) = <<"Task A Page">>
    /\ bOut.insertionPosition = 2

\* C4 as stated: the scenario yields the one task, intro pages ['Intro'] and
\* insertion position 2
C4_Original ==
    (IsScenario /\ bOut.built) =>
        (ScenarioTaskAndPosition /\ TitlesOf(bOut.introPages) = <<"Intro">>)

\* C4, amended: the scenario yields exactly one task 'Session 03: Task A' with the
\* pages ['Task A Page'], no intro page ('Intro' lies inside the Teachers Notes
\* range and is no source page), and insertion position 2
C4_ScenarioBuild ==
    (IsScenario /\ bOut.built) =>
        (ScenarioTaskAndPosition /\ bOut.introPages = <<>>)

C4_Witness == IsScenario /\ bOut.built /\ Len(bOut.tasks) = 1

(***************************************************************************)
(* Text runs: the classifier and synthesizer functions over page texts     *)
(***************************************************************************)
\* all sequences over S of length lo..hi
SeqsOf(S, lo, hi) == UNION {[1..n -> S] : n \in lo..hi}

\* page texts (bodyText) for buildCommonIssues
IssueTexts ==
    { "", "Check the wiring twice.", "Upload the sketch.", "Compile it first!",
      "Press a key on the Keypad", "The LCD lights up", "Rewiring keypads" }

\* page texts for detectComponents
ComponentTexts ==
    { "", "Open the Arduino IDE and the serial monitor.", "Use a 3x4 matrix keypad with the LCD.",
      "Plug the USB cable into the ESP32 on a breadboard",
      "jumper wires and a web browser: Tinkercad, Blender", "nousb keypads" }

\* intro page texts for buildObjectivePoints
IntroTexts ==
    { "", "Hi all, in this session you will wire the keypad to your board. Then test.",
      "Short text", "Troubleshoot one issue at a time before requesting direct help." }

\* task titles for buildObjectivePoints
TaskTitles == {"Session 03: Task A", "session 03 : task b", "Warm up"}

SessionNames == {"Session 03", "Keypad  Lab"}

\* page texts for buildTaskPoints
PointTexts ==
    { "", "You will wire the keypad to your board today.",
      "you WILL wire the keypad to YOUR board today",
      "Students should test each key in turn. Done." }

PageTitleAt(i) == "Page " \o SubSeq(DigitChars, i + 1, i + 1)

\* a task with the given title whose pages have the given texts
TaskOf(title, texts) ==
    [title |-> title,
     pages |-> [i \in 1..Len(texts) |->
                  [title |-> PageTitleAt(i), pageUrl |-> "page", position |-> i,
                   bodyHtml |-> texts[i], bodyText |-> texts[i]]]]

TextInputs ==
    [fn : {"issues"}, taskCount : 0..MaxTasks, texts : SeqsOf(IssueTexts, 0, MaxParts)]
    \cup [fn : {"components"}, table : {"software", "hardware"}, texts : SeqsOf(ComponentTexts, 0, MaxParts)]
    \cup [fn : {"objectives"}, intro : SeqsOf(IntroTexts, 0, MaxIntro),
          titles : SeqsOf(TaskTitles, 0, MaxTasks), sessionName : SessionNames]
    \cup [fn : {"taskPoints"}, texts : SeqsOf(PointTexts, 1, MaxTaskPages)]

\* fullText of renderTeacherNotesHtml
FullTextOf(texts) == join(texts, "\n")

TasksOfCount(n) == [i \in 1..n |-> TaskOf("Session 03: Task A", <<"">>)]

InitText ==
    /\ courseQuizzes = Idle /\ create = Idle
    /\ bIn = Idle /\ bOut = Idle
    /\ coursePages = Idle /\ sessionModule = Idle /\ cli = Idle /\ first = Idle
    /\ tIn \in TextInputs
    /\ tOut = NoResult

CallBuildCommonIssues ==
    /\ tIn.fn = "issues" /\ ~tOut.built
    /\ tOut' = [built |-> TRUE,
                value |-> buildCommonIssues(TasksOfCount(tIn.taskCount), FullTextOf(tIn.texts))]
    /\ UNCHANGED <<tIn, buildVars, cliVars, quizVars>>

CallDetectComponents ==
    /\ tIn.fn = "components" /\ ~tOut.built
    /\ tOut' = [built |-> TRUE,
                value |-> IF tIn.table = "software"
                          THEN detectComponents(FullTextOf(tIn.texts), SOFTWARE_KEYWORDS, SoftwareFallback)
                          ELSE detectComponents(FullTextOf(tIn.texts), HARDWARE_KEYWORDS, HardwareFallback)]
    /\ UNCHANGED <<tIn, buildVars, cliVars, quizVars>>

CallBuildObjectivePoints ==
    /\ tIn.fn = "objectives" /\ ~tOut.built
    /\ tOut' = [built |-> TRUE,
                value |-> buildObjectivePoints(TaskOf("", tIn.intro).pages,
                                               [i \in 1..Len(tIn.titles) |-> TaskOf(tIn.titles[i], <<"">>)],
                                               tIn.sessionName)]
    /\ UNCHANGED <<tIn, buildVars, cliVars, quizVars>>

CallBuildTaskPoints ==
    /\ tIn.fn = "taskPoints" /\ ~tOut.built
    /\ tOut' = [built |-> TRUE, value |-> buildTaskPoints(TaskOf("Session 03: Task A", tIn.texts))]
    /\ UNCHANGED <<tIn, buildVars, cliVars, quizVars>>

NextText ==
    \/ CallBuildCommonIssues
    \/ CallDetectComponents
    \/ CallBuildObjectivePoints
    \/ CallBuildTaskPoints

SpecText == InitText /\ [][NextText]_vars

(***************************************************************************)
(* Statements about the text runs (specification SpecText)                 *)
(***************************************************************************)
IssueRun == tOut.built /\ tIn.fn = "issues"

ObjectiveRun == tOut.built /\ tIn.fn = "objectives"

LowerFullText == toLowerCase(FullTextOf(tIn.texts))

TriggerWords == {"wiring", "upload", "compile", "keypad", "lcd"}

\* the full text has w as a whole word
WordIn(w) == MatchesWord(LowerFullText, w)

AnyTrigger == \E w \in TriggerWords : WordIn(w)

\* the generic issues buildCommonIssues pads two matched issues with
GenericPadding ==
    IF tIn.taskCount > 0 THEN <<MultipleChangesIssue, CheckpointIssue>> ELSE <<CheckpointIssue>>

\* C5 as stated: with at least one task buildCommonIssues returns at least 3
\* issues for every full text
C5_Original == (IssueRun /\ tIn.taskCount >= 1) => Len(tOut.value) >= 3

\* C5, amended: with at least one task buildCommonIssues returns at least 3 issues
\* for every full text that matches a trigger pattern, and exactly the two generic
\* issues for a full text that matches none
C5_IssuesWithTasks ==
    (IssueRun /\ tIn.taskCount >= 1) =>
        /\ AnyTrigger => Len(tOut.value) >= 3
        /\ ~AnyTrigger => tOut.value = <<MultipleChangesIssue, CheckpointIssue>>

\* a call with a task and a non-empty full text that matches no trigger
C5_Witness ==
    /\ IssueRun /\ tIn.taskCount >= 1
    /\ LowerFullText # "" /\ ~AnyTrigger
    /\ Len(tOut.value) = 2

\* no intro page has text
NoIntroText == \A i \in DOMAIN tIn.intro : trim(tIn.intro[i]) = ""

\* C6 as stated: buildObjectivePoints never returns fewer than 3 bullets
C6_Original == ObjectiveRun => Len(tOut.value) >= 3

\* C6, amended: buildObjectivePoints never returns fewer than 2 bullets; with no
\* tasks and no intro text it returns exactly the two generic filler bullets, and
\* with at least one task and no intro text it returns 3 bullets
C6_ObjectivesPadded ==
    ObjectiveRun =>
        /\ Len(tOut.value) >= 2
        /\ (tIn.titles = <<>> /\ NoIntroText) =>
              tOut.value = <<collapseSpaces(ApplyFiller(tIn.sessionName)), TroubleshootFiller>>
        /\ (tIn.titles # <<>> /\ NoIntroText) => Len(tOut.value) = 3

\* a call without tasks and without intro text
C6_Witness ==
    /\ ObjectiveRun
    /\ tIn.titles = <<>> /\ Len(tIn.intro) = MaxIntro /\ NoIntroText
    /\ Len(tOut.value) = 2

\* the key lists are deduplicated by: white space normalized, case folded
NormKey(s) == toLowerCase(trim(collapseSpaces(s)))

NoDuplicates(entries) ==
    \A i, j \in DOMAIN entries : i # j => NormKey(entries[i]) # NormKey(entries[j])

\* C7: buildObjectivePoints and buildTaskPoints return at most 3 bullets,
\* buildCommonIssues at most 4 issues, and none of these lists nor a
\* detectComponents list has two entries equal after white space normalization
\* and case folding
C7_CapsAndNoDuplicates ==
    tOut.built =>
        CASE tIn.fn = "objectives" -> Len(tOut.value) <= 3 /\ NoDuplicates(tOut.value)
          [] tIn.fn = "taskPoints" -> Len(tOut.value) <= 3 /\ NoDuplicates(tOut.value)
          [] tIn.fn = "issues"     ->
                /\ Len(tOut.value) <= 4
                /\ NoDuplicates([i \in DOMAIN tOut.value |-> tOut.value[i].issue])
          [] tIn.fn = "components" -> NoDuplicates(tOut.value)

\* a buildTaskPoints call over four pages, two of which give the same bullet
C7_Witness ==
    /\ tOut.built /\ tIn.fn = "taskPoints"
    /\ Len(tIn.texts) = 4
    /\ tIn.texts[1] = "You will wire the keypad to your board today."
    /\ tIn.texts[2] = "you WILL wire the keypad to YOUR board today"
    /\ Len(tOut.value) = 3

\* the fixed order of the issues
FixedOrder ==
    <<WiringIssue, UploadIssue, KeypadIssue, LcdIssue, MultipleChangesIssue, CheckpointIssue>>

InFixedOrder(issues) ==
    /\ \A i \in DOMAIN issues : \E k \in DOMAIN FixedOrder : FixedOrder[k] = issues[i]
    /\ \A i, j \in DOMAIN issues :
          i < j => \E k, m \in DOMAIN FixedOrder :
                      k < m /\ FixedOrder[k] = issues[i] /\ FixedOrder[m] = issues[j]

\* C8: the issues come in the fixed order wiring, upload/compile, keypad, display,
\* generic padding, and a full text that contains the words 'wiring' and 'keypad'
\* but none of the words 'upload', 'compile', 'lcd' gives the wiring issue, the
\* keypad issue, then the generic padding issues, at most 4 entries
C8_IssueOrder ==
    IssueRun =>
        /\ InFixedOrder(tOut.value)
        /\ (/\ WordIn("wiring") /\ WordIn("keypad")
            /\ ~WordIn("upload") /\ ~WordIn("compile") /\ ~WordIn("lcd")) =>
              /\ tOut.value = <<WiringIssue, KeypadIssue>> \o GenericPadding
              /\ Len(tOut.value) <= 4

\* a call with tasks over a full text with the words wiring and keypad only
C8_Witness ==
    /\ IssueRun /\ tIn.taskCount > 0
    /\ WordIn("wiring") /\ WordIn("keypad")
    /\ ~WordIn("upload") /\ ~WordIn("compile") /\ ~WordIn("lcd")
    /\ Len(tOut.value) = 4

(***************************************************************************)
(* The platform behind CanvasClient: the pages of the course and the items *)
(* of the session module                                                   *)
(***************************************************************************)
\* the digit that writes n (0..9)
Digit(n) == SubSeq(DigitChars, n + 1, n + 1)

InsertAt(seq, k, x) == SubSeq(seq, 1, k - 1) \o <<x>> \o SubSeq(seq, k, Len(seq))

\* GET modules/:id/items: the stored items, each at the position of its place
listModuleItems(stored) ==
    [i \in 1..Len(stored) |->
        [id |-> stored[i].id, title |-> stored[i].title, type |-> stored[i].type,
         position |-> i, page_url |-> stored[i].page_url]]

\* GET pages?search_term=: the pages whose title contains the trimmed search term
listPages(pages, searchTerm) ==
    With(toLowerCase(trim(searchTerm)), LAMBDA term :
        SelectSeq(pages, LAMBDA page : includes(toLowerCase(page.title), term)))

\* GET pages/:url
getPage(pages, pageUrl) == pages[CHOOSE i \in DOMAIN pages : pages[i].url = pageUrl]

\* the body getPage returns, by page url
BodyOf(pages) == [u \in {pages[i].url : i \in DOMAIN pages} |-> getPage(pages, u).body]

\* POST pages: the pages with the new page, under a url no page has yet
createPage(pages, input) ==
    Append(pages, [url |-> "page-" \o Digit(Len(pages) + 1), title |-> input.title,
                   body |-> input.body, published |-> input.published])

\* PUT pages/:url
updatePage(pages, pageUrl, input) ==
    [i \in DOMAIN pages |->
        IF pages[i].url = pageUrl
        THEN [pages[i] EXCEPT !.title = input.title, !.body = input.body,
                              !.published = input.published]
        ELSE pages[i]]

\* POST modules/:id/items: the new Page item takes the position asked for and
\* the items from there on move down
createModulePageItem(stored, input) ==
    With([id |-> 101 + Len(stored), title |-> input.title, type |-> "Page",
          page_url |-> input.pageUrl], LAMBDA item :
        IF input.position > Len(stored) THEN Append(stored, item)
        ELSE InsertAt(stored, input.position, item))

\* PUT modules/:id/items/:id: the item leaves its place and takes the position asked for
updateModuleItemPosition(stored, itemId, position) ==
    With(SelectSeq(stored, LAMBDA item : item.id = itemId), LAMBDA moved :
    With(SelectSeq(stored, LAMBDA item : item.id # itemId), LAMBDA rest :
        IF moved = <<>> THEN stored
        ELSE IF position > Len(rest) THEN Append(rest, moved[1])
        ELSE InsertAt(rest, position, moved[1])))

(***************************************************************************)
(* The teacher-notes command                                               *)
(***************************************************************************)
normalize(v) == toLowerCase(trim(v))

\* DraftSuffixTest without the i flag
DraftSuffixTestCaseSensitive(title) ==
    endsWith(SubSeq(title, 1, SkipSpacesBack(title, Len(title))), "(Draft)")

\* /\(draft\)\s*$/i.test(title)
DraftSuffixTest(title) ==
    endsWith(toLowerCase(SubSeq(title, 1, SkipSpacesBack(title, Len(title)))), "(draft)")

\* const pageTitle
DraftPageTitle(rawPageTitle, isDraftMode) ==
    IF isDraftMode /\ ~DraftSuffixTest(rawPageTitle) THEN rawPageTitle \o " (Draft)"
    ELSE rawPageTitle

\* the stamp of archivePage: the clock reading of the run
Stamp(n) == "T" \o Digit(n)

\* archiveTitle that keeps the title of the page
archiveTitleUnmarked(current, stamp) == current.title

archiveTitle(current, stamp) == current.title \o " (Archive " \o stamp \o ")"

existingModulePage(items, pageTitle) ==
    FindFirst(items, LAMBDA item :
        /\ item.type = "Page"
        /\ normalize(item.title) = normalize(pageTitle)
        /\ item.page_url # NoUrl)

\* the pages the command may take for existingPage: pages.find returns the first
\* listed page with the title, and the platform fixes no order of the listing
existingPages(pages, pageTitle) ==
    SelectSeq(listPages(pages, pageTitle),
              LAMBDA page : normalize(page.title) = normalize(pageTitle))

\* the urls the command may update: that of existingModulePage, else of an existingPage
ExistingPageUrls(items, pages, pageTitle) ==
    With(existingModulePage(items, pageTitle), LAMBDA found :
        IF found # <<>> THEN {found[1].page_url}
        ELSE With(existingPages(pages, pageTitle), LAMBDA titled :
                 {titled[i].url : i \in DOMAIN titled}))

\* moduleItemForPage, looking the page up under a title instead of its url
moduleItemForPageByTitle(items, pageUrl) ==
    FindFirst(items, LAMBDA item : item.type = "Page" /\ item.title = pageUrl)

moduleItemForPage(items, pageUrl) ==
    FindFirst(items, LAMBDA item : item.type = "Page" /\ item.page_url = pageUrl)

\* placementCall that moves every item it finds
placementCallAlwaysMove(found, insertionPosition) ==
    IF found = <<>> THEN "createModulePageItem"
    ELSE "updateModuleItemPosition"

\* the module call of a live run, from moduleItemForPage and the insertion position
placementCall(found, insertionPosition) ==
    IF found = <<>> THEN "createModulePageItem"
    ELSE IF found[1].position # insertionPosition THEN "updateModuleItemPosition"
    ELSE "none"

\* a call the command made on the client
Call(op, title, url, position) ==
    [op |-> op, title |-> title, url |-> url, position |-> position]

\* PendingPlacement without the test of the draft mode
PendingPlacementInDraft ==
    placementCall(moduleItemForPage(cli.built.moduleItems, cli.pageUrl),
                  cli.built.insertionPosition)

\* the module call the run has still to make once its page is written
PendingPlacement ==
    IF cli.isDraftMode THEN "none"
    ELSE placementCall(moduleItemForPage(cli.built.moduleItems, cli.pageUrl),
                       cli.built.insertionPosition)

CountOf(seq, Test(_)) == Len(SelectSeq(seq, Test))

NotStarted ==
    [set |-> FALSE, n |-> 0, pageTitle |-> "", url |-> NoUrl, pages |-> 0, items |-> 0,
     clean |-> FALSE]

\* the record of the first live run that completes: the page it wrote, how many
\* pages carry the title and how many Page items reference the page afterwards,
\* and whether the run found at most one of each
RecordFirst(run, pages, stored) ==
    IF first.set \/ run.isDraftMode THEN first
    ELSE [set |-> TRUE, n |-> run.n, pageTitle |-> run.pageTitle, url |-> run.pageUrl,
          pages |-> CountOf(pages, LAMBDA page :
                        normalize(page.title) = normalize(run.pageTitle)),
          items |-> CountOf(stored, LAMBDA item :
                        item.type = "Page" /\ item.page_url = run.pageUrl),
          clean |-> /\ CountOf(run.listed, LAMBDA page :
                           normalize(page.title) = normalize(run.pageTitle)) <= 1
                    /\ CountOf(run.built.moduleItems, LAMBDA item :
                           item.type = "Page" /\ item.page_url = run.pageUrl) <= 1]

\* the reads of buildTeacherNotesForSession that can reject: the module
\* resolution, the item listing, and the getPage of a source page when the
\* module has one
FailingStages(result) ==
    {"resolveModuleByName", "listModuleItems"}
    \cup (IF result.modulePages # <<>> THEN {"getPage"} ELSE {})

\* buildOutcome that leaves out the pages whose getPage was refused
buildOutcomeSkipFailedPages(stage, result) ==
    IF stage = "getPage" THEN [result EXCEPT !.modulePages = SubSeq(@, 1, Len(@) - 1)]
    ELSE NoResult

\* what buildTeacherNotesForSession resolves to when the read at stage rejects:
\* every read is awaited, so the rejection is the outcome of the build
buildOutcome(stage, result) == NoResult

\* the steps of the run that can be refused next: the title search when no
\* module item gives the page, then archivePage (its getPage or its createPage),
\* updatePage or createPage, and after the page is written the module call
RefusableCalls ==
    IF cli.pc = "built"
    THEN With(ExistingPageUrls(cli.built.moduleItems, coursePages, cli.pageTitle), LAMBDA urls :
             (IF existingModulePage(cli.built.moduleItems, cli.pageTitle) = <<>>
              THEN {"listPages"} ELSE {})
             \cup {IF urls = {} THEN "createPage"
                   ELSE IF cli.isDraftMode THEN "updatePage" ELSE "archivePage"})
    ELSE IF cli.pc = "archived" THEN {"updatePage"}
    ELSE IF cli.pc = "paged" THEN {PendingPlacement} \ {"none"}
    ELSE {}

\* pcAfterRefusal with archivePage as a step whose failure is passed over
pcAfterRefusalArchiveIgnored(call) == IF call = "archivePage" THEN "archived" ELSE "failed"

\* where the command stands after a refused call: the rejection reaches the
\* catch of program.parseAsync, which prints the message and exits
pcAfterRefusal(call) == "failed"

\* pcAfterBuild without the return of the dry run
pcAfterBuildIgnoreDryRun(dryRun) == "built"

\* where the command stands once the build has resolved: a dry run prints
\* the preview and returns
pcAfterBuild(dryRun) == IF dryRun THEN "done" ELSE "built"

\* the pages a course may hold before the first run
PagePool ==
    << [url |-> "notes", title |-> "NOTES", body |-> "<p>old</p>", published |-> TRUE],
       [url |-> "intro", title |-> "Intro", body |-> "<p>Hi</p>", published |-> TRUE] >>

\* the items a session module may hold before the first run: the Teachers
\* Notes header, a Page item for a page of the course, a Page item without a
\* page reference
ModuleKinds(pages) ==
    { [title |-> "Teachers Notes", type |-> "SubHeader", page_url |-> NoUrl],
      [title |-> "Notes", type |-> "Page", page_url |-> NoUrl] }
    \cup { [title |-> pages[i].title, type |-> "Page", page_url |-> pages[i].url] :
              i \in DOMAIN pages }

\* the --page-title of the runs
RawPageTitles == {"Notes", "Plan (draft)"}

Init ==
    /\ courseQuizzes = Idle /\ create = Idle
    /\ bIn = Idle /\ bOut = Idle /\ tIn = Idle /\ tOut = Idle
    /\ \E keep \in SUBSET (1..Len(PagePool)) :
          coursePages = SelectSeq(PagePool, LAMBDA page :
                            \E i \in keep : PagePool[i] = page)
    /\ \E n \in 0..MaxModule : \E kinds \in [1..n -> ModuleKinds(coursePages)] :
          sessionModule = [i \in 1..n |->
                              [id |-> 100 + i, title |-> kinds[i].title,
                               type |-> kinds[i].type, page_url |-> kinds[i].page_url]]
    /\ \E rawPageTitle \in RawPageTitles :
          cli = [pc |-> "idle", n |-> 0, rawPageTitle |-> rawPageTitle,
                 isDraftMode |-> FALSE, dryRun |-> FALSE, pageTitle |-> rawPageTitle,
                 built |-> NoResult, listed |-> <<>>, moduleAtStart |-> <<>>,
                 error |-> "none", pageUrl |-> NoUrl, calls |-> <<>>]
    /\ first = NotStarted

\* the command starts: it reads its options, builds the notes from the module
\* as listed, and returns at once on a dry run
StartRun ==
    /\ cli.pc \in {"idle", "done", "failed"}
    /\ cli.n < MaxRuns
    /\ \E isDraftMode \in BOOLEAN, dryRun \in BOOLEAN :
          With(DraftPageTitle(cli.rawPageTitle, isDraftMode), LAMBDA pageTitle :
              cli' = [pc |-> pcAfterBuild(dryRun),
                      n |-> cli.n + 1,
                      rawPageTitle |-> cli.rawPageTitle,
                      isDraftMode |-> isDraftMode,
                      dryRun |-> dryRun,
                      pageTitle |-> pageTitle,
                      built |-> BuildResult(listModuleItems(sessionModule), pageTitle,
                                            BodyOf(coursePages)),
                      listed |-> coursePages,
                      moduleAtStart |-> sessionModule,
                      error |-> "none",
                      pageUrl |-> NoUrl,
                      calls |-> <<>>])
    /\ UNCHANGED <<coursePages, sessionModule, first, buildVars, textVars, quizVars>>

\* the command starts and a read of buildTeacherNotesForSession is refused or
\* the module cannot be resolved: the build rejects and the command ends
BuildFails ==
    /\ cli.pc \in {"idle", "done", "failed"}
    /\ cli.n < MaxRuns
    /\ \E isDraftMode \in BOOLEAN, dryRun \in BOOLEAN :
          With(DraftPageTitle(cli.rawPageTitle, isDraftMode), LAMBDA pageTitle :
          With(BuildResult(listModuleItems(sessionModule), pageTitle, BodyOf(coursePages)),
               LAMBDA result :
              \E stage \in FailingStages(result) :
                  With(buildOutcome(stage, result), LAMBDA built :
                      cli' = [pc |-> IF ~built.built THEN "failed"
                                     ELSE pcAfterBuild(dryRun),
                              n |-> cli.n + 1,
                              rawPageTitle |-> cli.rawPageTitle,
                              isDraftMode |-> isDraftMode,
                              dryRun |-> dryRun,
                              pageTitle |-> pageTitle,
                              built |-> built,
                              listed |-> coursePages,
                              moduleAtStart |-> sessionModule,
                              error |-> stage,
                              pageUrl |-> NoUrl,
                              calls |-> <<>>])))
    /\ UNCHANGED <<coursePages, sessionModule, first, buildVars, textVars, quizVars>>

\* archivePage of a live run that found its page: the current content goes
\* into a new unpublished page
ArchivePage ==
    /\ cli.pc = "built"
    /\ ~cli.isDraftMode
    /\ \E pageUrl \in ExistingPageUrls(cli.built.moduleItems, coursePages, cli.pageTitle) :
          With(archiveTitle(getPage(coursePages, pageUrl), Stamp(cli.n)), LAMBDA title :
              /\ coursePages' = createPage(coursePages,
                     [title |-> title, body |-> getPage(coursePages, pageUrl).body,
                      published |-> FALSE])
              /\ cli' = [cli EXCEPT !.pc = "archived", !.pageUrl = pageUrl,
                                    !.calls = Append(@, Call("createPage", title, NoUrl, 0))])
    /\ UNCHANGED <<sessionModule, first, buildVars, textVars, quizVars>>

\* updatePage of the page found: at once in draft mode, after archivePage otherwise
UpdatePage ==
    /\ \E pageUrl \in (IF cli.pc = "archived" THEN {cli.pageUrl}
                       ELSE IF cli.pc = "built" /\ cli.isDraftMode
                       THEN ExistingPageUrls(cli.built.moduleItems, coursePages, cli.pageTitle)
                       ELSE {}) :
          /\ coursePages' = updatePage(coursePages, pageUrl,
                 [title |-> cli.pageTitle, body |-> cli.built.notesHtml, published |-> TRUE])
          /\ cli' = [cli EXCEPT !.pc = "paged", !.pageUrl = pageUrl,
                                !.calls = Append(@, Call("updatePage", cli.pageTitle, pageUrl, 0))]
    /\ UNCHANGED <<sessionModule, first, buildVars, textVars, quizVars>>

\* createPage of the notes page when no page was found
CreatePage ==
    /\ cli.pc = "built"
    /\ ExistingPageUrls(cli.built.moduleItems, coursePages, cli.pageTitle) = {}
    /\ coursePages' = createPage(coursePages,
           [title |-> cli.pageTitle, body |-> cli.built.notesHtml, published |-> TRUE])
    /\ cli' = [cli EXCEPT !.pc = "paged",
                          !.pageUrl = coursePages'[Len(coursePages')].url,
                          !.calls = Append(@, Call("createPage", cli.pageTitle, NoUrl, 0))]
    /\ UNCHANGED <<sessionModule, first, buildVars, textVars, quizVars>>

\* createModulePageItem of a live run, and the end of the run
CreateModuleItem ==
    /\ cli.pc = "paged"
    /\ PendingPlacement = "createModulePageItem"
    /\ sessionModule' = createModulePageItem(sessionModule,
           [title |-> cli.pageTitle, pageUrl |-> cli.pageUrl,
            position |-> cli.built.insertionPosition])
    /\ cli' = [cli EXCEPT !.pc = "done",
                          !.calls = Append(@, Call("createModulePageItem", cli.pageTitle,
                                                   cli.pageUrl, cli.built.insertionPosition))]
    /\ first' = RecordFirst(cli, coursePages, sessionModule')
    /\ UNCHANGED <<coursePages, buildVars, textVars, quizVars>>

\* updateModuleItemPosition of a live run, and the end of the run
MoveModuleItem ==
    /\ cli.pc = "paged"
    /\ PendingPlacement = "updateModuleItemPosition"
    /\ sessionModule' = updateModuleItemPosition(sessionModule,
           moduleItemForPage(cli.built.moduleItems, cli.pageUrl)[1].id,
           cli.built.insertionPosition)
    /\ cli' = [cli EXCEPT !.pc = "done",
                          !.calls = Append(@, Call("updateModuleItemPosition", "",
                                                   cli.pageUrl, cli.built.insertionPosition))]
    /\ first' = RecordFirst(cli, coursePages, sessionModule')
    /\ UNCHANGED <<coursePages, buildVars, textVars, quizVars>>

\* the end of a run that has no module call to make
FinishRun ==
    /\ cli.pc = "paged"
    /\ PendingPlacement = "none"
    /\ cli' = [cli EXCEPT !.pc = "done"]
    /\ first' = RecordFirst(cli, coursePages, sessionModule)
    /\ UNCHANGED <<coursePages, sessionModule, buildVars, textVars, quizVars>>

\* the call the run is about to make is refused: request throws, nothing in
\* the action catches it, and the command ends
ApiCallFails ==
    /\ \E call \in RefusableCalls :
          cli' = [cli EXCEPT !.pc = pcAfterRefusal(call), !.error = call]
    /\ UNCHANGED <<coursePages, sessionModule, first, buildVars, textVars, quizVars>>

Next ==
    \/ StartRun
    \/ BuildFails
    \/ ArchivePage
    \/ UpdatePage
    \/ CreatePage
    \/ CreateModuleItem
    \/ MoveModuleItem
    \/ FinishRun
    \/ ApiCallFails

Spec == Init /\ [][Next]_vars

(***************************************************************************)
(* Statements about the teacher-notes command                              *)
(***************************************************************************)
\* a live run that has completed
LiveDone == cli.pc = "done" /\ ~cli.isDraftMode /\ ~cli.dryRun

CallsOf(op) == SelectSeq(cli.calls, LAMBDA call : call.op = op)

\* the createPage calls of the run that create the notes page
NotesCreates == SelectSeq(cli.calls, LAMBDA call :
                    call.op = "createPage" /\ call.title = cli.pageTitle)

\* the fetched module's Page items that carry the normalized target title and
\* a page reference
TitledItems == SelectSeq(cli.built.moduleItems, LAMBDA item :
                   /\ item.type = "Page"
                   /\ item.page_url # NoUrl
                   /\ normalize(item.title) = normalize(cli.pageTitle))

\* the course pages that carried the normalized target title when the run started
TitledPages == SelectSeq(cli.listed, LAMBDA page :
                   normalize(page.title) = normalize(cli.pageTitle))

\* the fetched module's Page items that reference the page the run wrote
ReferencingItems == SelectSeq(cli.built.moduleItems, LAMBDA item :
                        item.type = "Page" /\ item.page_url = cli.pageUrl)

\* C9: a completed live run has called createPage for the notes page exactly
\* when neither a module Page item with a page reference nor a course page had
\* the normalized target title, and has otherwise called updatePage on that
\* existing page (the titled module item's page before a titled course page);
\* it has called createModulePageItem, at the insertion position, exactly when
\* no fetched module item referenced the page URL, updateModuleItemPosition
\* exactly when the first such item was at a position different from the
\* insertion position, no module-item call when that item was at the insertion
\* position, and never both calls.
C9_LiveDecisions ==
    LiveDone =>
        /\ Len(NotesCreates) = (IF TitledItems = <<>> /\ TitledPages = <<>> THEN 1 ELSE 0)
        /\ Len(CallsOf("updatePage")) = 1 - Len(NotesCreates)
        /\ \A i \in DOMAIN cli.calls :
              cli.calls[i].op = "updatePage" =>
                  /\ cli.calls[i].url = cli.pageUrl
                  /\ IF TitledItems # <<>> THEN cli.pageUrl = TitledItems[1].page_url
                     ELSE \E j \in DOMAIN TitledPages : TitledPages[j].url = cli.pageUrl
        /\ Len(CallsOf("createModulePageItem")) = (IF ReferencingItems = <<>> THEN 1 ELSE 0)
        /\ \A i \in DOMAIN cli.calls :
              cli.calls[i].op = "createModulePageItem" =>
                  /\ cli.calls[i].url = cli.pageUrl
                  /\ cli.calls[i].position = cli.built.insertionPosition
        /\ Len(CallsOf("updateModuleItemPosition")) =
              (IF /\ ReferencingItems # <<>>
                  /\ ReferencingItems[1].position # cli.built.insertionPosition
               THEN 1 ELSE 0)
        /\ Len(CallsOf("createModulePageItem")) + Len(CallsOf("updateModuleItemPosition")) <= 1

\* a live run that found a titled Page item without a page reference and a
\* titled course page, updated that page and moved nothing into place but
\* created the module item
C9_Witness ==
    /\ LiveDone
    /\ TitledItems = <<>>
    /\ \E i \in DOMAIN cli.built.moduleItems :
          /\ cli.built.moduleItems[i].type = "Page"
          /\ cli.built.moduleItems[i].page_url = NoUrl
          /\ normalize(cli.built.moduleItems[i].title) = normalize(cli.pageTitle)
    /\ TitledPages # <<>>
    /\ Len(CallsOf("updatePage")) = 1
    /\ Len(CallsOf("createModulePageItem")) = 1

\* the course pages with the title of the first completed live run
NotesPageCount ==
    CountOf(coursePages, LAMBDA page : normalize(page.title) = normalize(first.pageTitle))

\* the module's Page items that reference the page of the first completed live run
NotesItemCount ==
    CountOf(sessionModule, LAMBDA item : item.type = "Page" /\ item.page_url = first.url)

\* C10: once a live run has completed, every further run leaves the number of
\* course pages with the target title and the number of module items
\* referencing the notes page as that run left them, a further live run
\* calls neither createPage for the notes page nor createModulePageItem, and
\* both numbers are exactly one when the first run found at most one page
\* with the title and at most one module item referencing the page.
C10_Idempotent ==
    first.set =>
        /\ NotesPageCount = first.pages
        /\ NotesItemCount = first.items
        /\ first.clean => first.pages = 1 /\ first.items = 1
        /\ (LiveDone /\ cli.n > first.n) =>
              /\ NotesCreates = <<>>
              /\ CallsOf("createModulePageItem") = <<>>
              /\ cli.pageUrl = first.url

\* a second live run has completed after the first: it archived and updated
\* the one notes page and left its one module item alone
C10_Witness ==
    /\ first.set
    /\ LiveDone
    /\ cli.n > first.n
    /\ Len(CallsOf("updatePage")) = 1
    /\ Len(cli.calls) = 2
    /\ NotesPageCount = 1
    /\ NotesItemCount = 1

\* a run in draft mode, at any point after its start
DraftRun == cli.pc # "idle" /\ cli.isDraftMode

\* C11: a run in draft mode leaves the module's items and their order as it
\* found them, makes at most one write, which is a createPage or an updatePage
\* for the draft-titled page (so no archive page and no module-item call), and
\* has made exactly that one write when it completes without --dry-run
C11_DraftWrites ==
    DraftRun =>
        /\ sessionModule = cli.moduleAtStart
        /\ Len(cli.calls) <= 1
        /\ \A i \in DOMAIN cli.calls :
              /\ cli.calls[i].op \in {"createPage", "updatePage"}
              /\ cli.calls[i].title = cli.pageTitle
        /\ Len(coursePages) = Len(cli.listed) + Len(CallsOf("createPage"))
        /\ \A i \in DOMAIN coursePages :
              i > Len(cli.listed) => coursePages[i].title = cli.pageTitle
        /\ (cli.pc = "done" /\ ~cli.dryRun) => Len(cli.calls) = 1

\* a completed draft run that updated the page a live run had put into the
\* module, and left the module alone
C11_Witness ==
    /\ DraftRun /\ cli.pc = "done" /\ ~cli.dryRun
    /\ Len(CallsOf("updatePage")) = 1
    /\ \E i \in DOMAIN sessionModule :
          sessionModule[i].type = "Page" /\ sessionModule[i].page_url = cli.pageUrl
    /\ first.set

(***************************************************************************)
(* Function runs: one call of a function of the command or of the engine   *)
(***************************************************************************)
\* --page-title values for the effective title
DraftTitleInputs ==
    { "", "Notes", "Notes (Draft)", "Notes (draft)", "Notes (DRAFT) \t", "Notes(dRaFt)\n",
      "(Draft) Notes", "Notes (Draft", "Notes ( Draft )", "Notes (Draft) x" }

\* task titles for buildTaskDifferentiation
DiffTitles == {"Session 03: Task A", "How the LCD works", "Keypad theory", "Concept: custom icons"}

\* page texts for buildTaskDifferentiation
DiffTexts ==
    { "", "Design a custom character.", "A custom message", "Print one character",
      "Wiring the keypad matrix", "Check the LCD wiring", "The theory of how things work",
      "customs characters" }

\* module items for findTeacherNotesInsertionPosition
UnitItemKinds ==
    { [title |-> "Teachers Notes",   type |-> "SubHeader", page_url |-> NoUrl],
      [title |-> " teachers NOTES ", type |-> "SubHeader", page_url |-> NoUrl],
      [title |-> "Teacher Notes",    type |-> "SubHeader", page_url |-> NoUrl],
      [title |-> "Teachers Notes",   type |-> "Page",      page_url |-> "notes"] }

\* the listings of up to MaxUnitItems items at positions of their own, in any order
UnitListings ==
    UNION { { [i \in 1..n |-> [id |-> 100 + i, title |-> kinds[i].title, type |-> kinds[i].type,
                               position |-> at[i], page_url |-> kinds[i].page_url]] :
                 kinds \in [1..n -> UnitItemKinds],
                 at \in {f \in [1..n -> 2..(MaxUnitItems + 2)] :
                            \A i, j \in 1..n : i # j => f[i] # f[j]} } :
            n \in 0..MaxUnitItems }

\* task titles for buildTaskSequenceObjective
SeqTitles ==
    { "Session 03: Task A", "Session 03: Task B", " session  03 : task b2", "Session 3: Task C",
      "Warm up", "Session 03: Task" }

\* module items for renderTeacherNotesHtml
RenderKinds ==
    { [title |-> "Session 03: Task A", type |-> "SubHeader", page_url |-> NoUrl],
      [title |-> "Intro",              type |-> "Page",      page_url |-> "intro"],
      [title |-> "Wire <it>",          type |-> "Page",      page_url |-> "wire-it"],
      [title |-> "Blank",              type |-> "Page",      page_url |-> "blank"] }

RenderPageTitles == {"Notes", "Q&A \"draft\""}

\* the page bodies of the render runs, by page url
RenderPageBody ==
    [u \in {"intro", "wire-it", "blank"} |->
        IF u = "intro" THEN "<p>Open the Arduino IDE &amp; read the plan for today.</p>"
        ELSE IF u = "wire-it" THEN "Wire the keypad to your board"
        ELSE ""]

\* markup fragments for toPlainText
HtmlParts ==
    { "<p>Hi</p>", "<b>x</b> y", "a <br/> b", "<style>p{}</style>", " 1 < 2 ",
      "&lt;b&gt;", "&amp;lt;", "&amp;", "&#60;i&#x3E;", "&nbsp;&quot;" }

HtmlInputs == {concatAll(parts) : parts \in SeqsOf(HtmlParts, 1, MaxHtmlParts)}

\* page texts for firstSentence and toOutcomeBullet
BulletTexts ==
    { "", "Hi all,", "Short text", "Wire it up.", "Stop!",
      "You will wire the keypad to your board today.",
      "Is the keypad wired to the board?  Check it.",
      "Students should test each key in turn",
      "We will test the keypad today..." }

UnitInputs ==
    [fn : {"draftTitle"}, title : DraftTitleInputs, isDraftMode : BOOLEAN]
    \cup [fn : {"insertion"}, items : UnitListings]
    \cup [fn : {"sequence"}, titles : SeqsOf(SeqTitles, 0, MaxSeqTasks)]
    \cup [fn : {"plainText"}, html : HtmlInputs]
    \cup [fn : {"bullet"}, text : BulletTexts]
    \cup [fn : {"entity"}, name : DOMAIN NamedEntities]
    \cup [fn : {"render"}, pageTitle : RenderPageTitles, sessionName : SessionNames,
          kinds : SeqsOf(RenderKinds, 0, MaxRenderItems)]
    \cup [fn : {"differentiation"}, title : DiffTitles, texts : SeqsOf(DiffTexts, 1, MaxDiffPages)]

InitUnit ==
    /\ courseQuizzes = Idle /\ create = Idle
    /\ bIn = Idle /\ bOut = Idle
    /\ coursePages = Idle /\ sessionModule = Idle /\ cli = Idle /\ first = Idle
    /\ tIn \in UnitInputs
    /\ tOut = NoResult

CallDraftPageTitle ==
    /\ tIn.fn = "draftTitle" /\ ~tOut.built
    /\ tOut' = [built |-> TRUE, value |-> DraftPageTitle(tIn.title, tIn.isDraftMode)]
    /\ UNCHANGED <<tIn, buildVars, cliVars, quizVars>>

CallBuildTaskDifferentiation ==
    /\ tIn.fn = "differentiation" /\ ~tOut.built
    /\ tOut' = [built |-> TRUE, value |-> buildTaskDifferentiation(TaskOf(tIn.title, tIn.texts))]
    /\ UNCHANGED <<tIn, buildVars, cliVars, quizVars>>

CallFindTeacherNotesInsertionPosition ==
    /\ tIn.fn = "insertion" /\ ~tOut.built
    /\ tOut' = [built |-> TRUE, value |-> findTeacherNotesInsertionPosition(tIn.items)]
    /\ UNCHANGED <<tIn, buildVars, cliVars, quizVars>>

CallBuildTaskSequenceObjective ==
    /\ tIn.fn = "sequence" /\ ~tOut.built
    /\ tOut' = [built |-> TRUE,
                value |-> buildTaskSequenceObjective(
                              [i \in 1..Len(tIn.titles) |-> TaskOf(tIn.titles[i], <<"">>)])]
    /\ UNCHANGED <<tIn, buildVars, cliVars, quizVars>>

\* the moduleItems and modulePages buildTeacherNotesForSession hands over
RenderItems(kinds) == sortByPosition(ListedModule(kinds, "asc"))

CallRenderTeacherNotesHtml ==
    /\ tIn.fn = "render" /\ ~tOut.built
    /\ tOut' = [built |-> TRUE,
                value |-> renderTeacherNotesHtml(
                              tIn.pageTitle, tIn.sessionName, RenderItems(tIn.kinds),
                              buildModulePages(RenderItems(tIn.kinds), tIn.pageTitle,
                                               RenderPageBody))]
    /\ UNCHANGED <<tIn, buildVars, cliVars, quizVars>>

CallToPlainText ==
    /\ tIn.fn = "plainText" /\ ~tOut.built
    /\ tOut' = [built |-> TRUE, value |-> toPlainText(tIn.html), twice |-> FALSE]
    /\ UNCHANGED <<tIn, buildVars, cliVars, quizVars>>

\* toPlainText on its own output
CallToPlainTextAgain ==
    /\ tIn.fn = "plainText" /\ tOut.built /\ ~tOut.twice
    /\ tOut' = [tOut EXCEPT !.twice = TRUE] @@ [second |-> toPlainText(tOut.value)]
    /\ UNCHANGED <<tIn, buildVars, cliVars, quizVars>>

\* the entity text of a named entity
EntityText(name) == "&" \o name \o ";"

CallDecodeHtmlEntities ==
    /\ tIn.fn = "entity" /\ ~tOut.built
    /\ tOut' = [built |-> TRUE, value |-> decodeHtmlEntities(EntityText(tIn.name)),
                twice |-> FALSE]
    /\ UNCHANGED <<tIn, buildVars, cliVars, quizVars>>

\* escapeHtml on the decoded text
CallEscapeHtml ==
    /\ tIn.fn = "entity" /\ tOut.built /\ ~tOut.twice
    /\ tOut' = [tOut EXCEPT !.twice = TRUE] @@ [second |-> escapeHtml(tOut.value)]
    /\ UNCHANGED <<tIn, buildVars, cliVars, quizVars>>

CallFirstSentence ==
    /\ tIn.fn = "bullet" /\ ~tOut.built
    /\ tOut' = [built |-> TRUE, value |-> firstSentence(tIn.text), twice |-> FALSE]
    /\ UNCHANGED <<tIn, buildVars, cliVars, quizVars>>

\* toOutcomeBullet on the sentence found, as buildObjectivePoints and
\* buildTaskPoints call it
CallToOutcomeBullet ==
    /\ tIn.fn = "bullet" /\ tOut.built /\ ~tOut.twice
    /\ tOut.value # NoSentence
    /\ tOut' = [tOut EXCEPT !.twice = TRUE] @@ [second |-> toOutcomeBullet(tOut.value[1])]
    /\ UNCHANGED <<tIn, buildVars, cliVars, quizVars>>

NextUnit ==
    \/ CallRenderTeacherNotesHtml
    \/ CallFirstSentence
    \/ CallToOutcomeBullet
    \/ CallDecodeHtmlEntities
    \/ CallEscapeHtml
    \/ CallToPlainText
    \/ CallToPlainTextAgain
    \/ CallDraftPageTitle
    \/ CallFindTeacherNotesInsertionPosition
    \/ CallBuildTaskSequenceObjective
    \/ CallBuildTaskDifferentiation

SpecUnit == InitUnit /\ [][NextUnit]_vars

(***************************************************************************)
(* Statements about function runs                                          *)
(***************************************************************************)
DraftTitleRun == tOut.built /\ tIn.fn = "draftTitle"

\* title is some text, then '(draft)' in any letter case, then white space only
EndsWithDraftSuffix(title) ==
    \E k \in 1..Len(title) :
        /\ k + 6 <= Len(title)
        /\ toLowerCase(SubSeq(title, k, k + 6)) = "(draft)"
        /\ \A j \in (k + 7)..Len(title) : SubSeq(title, j, j) \in WhiteSpace

\* C12: in draft mode the effective page title is the input title followed by
\* ' (Draft)' unless the input title ends with '(Draft)' in any letter case,
\* optionally followed by white space, and is then the input title unchanged;
\* the effective draft title given back as input comes out unchanged; outside
\* draft mode the effective title is the input title
C12_DraftTitle ==
    DraftTitleRun =>
        /\ ~tIn.isDraftMode => tOut.value = tIn.title
        /\ tIn.isDraftMode =>
              /\ EndsWithDraftSuffix(tIn.title) => tOut.value = tIn.title
              /\ ~EndsWithDraftSuffix(tIn.title) => tOut.value = tIn.title \o " (Draft)"
              /\ DraftPageTitle(tOut.value, TRUE) = tOut.value

\* a draft-mode call with a title that ends in '(draft)' in another letter
\* case and white space
C12_Witness ==
    /\ DraftTitleRun /\ tIn.isDraftMode
    /\ tIn.title = "Notes (DRAFT) \t"
    /\ tOut.value = tIn.title

(***************************************************************************)
(* Statements about refused calls of the teacher-notes command             *)
(***************************************************************************)
\* the archive step of a live overwrite was refused
ArchiveFailed == cli.error = "archivePage"

BuildFailed == cli.error \in {"resolveModuleByName", "listModuleItems", "getPage"}

\* C14: when the module resolution, the item listing or the getPage of a
\* source page fails, the build gives no TeacherNotesBuildResult, not even one
\* made of the pages that were fetched, and the command ends without a
\* createPage, updatePage, createModulePageItem or updateModuleItemPosition
\* call, the course pages and the module being as the run found them
C14_BuildFailureAborts ==
    BuildFailed =>
        /\ cli.built = NoResult
        /\ cli.pc = "failed"
        /\ cli.calls = <<>>
        /\ coursePages = cli.listed
        /\ sessionModule = cli.moduleAtStart

\* a run over a module with two source pages, ended by the refusal of a getPage
C14_Witness ==
    /\ cli.error = "getPage"
    /\ cli.pc = "failed"
    /\ Len(buildModulePages(sortByPosition(listModuleItems(cli.moduleAtStart)),
                            cli.pageTitle, BodyOf(cli.listed))) = 2

DiffRun == tOut.built /\ tIn.fn = "differentiation"

\* the combined task title, page titles and page body text of the call, lower-cased
DiffContext ==
    toLowerCase(tIn.title \o " "
                \o join([i \in 1..Len(tIn.texts) |-> PageTitleAt(i)], " ") \o " "
                \o join(tIn.texts, " "))

\* the task title and page titles of the call, lower-cased
DiffTitleContext ==
    toLowerCase(tIn.title \o " " \o join([i \in 1..Len(tIn.texts) |-> PageTitleAt(i)], " "))

ContextHas(w) == MatchesWord(DiffContext, w)

\* the four checks, in their priority order
CustomCharacterCheck == ContextHas("custom") \/ ContextHas("character")
KeypadCheck == ContextHas("keypad") \/ ContextHas("3x4") \/ ContextHas("matrix")
TheoryCheck ==
    \/ MatchesWord(DiffTitleContext, "theory")
    \/ MatchesWord(DiffTitleContext, "concept")
    \/ HowWorkTest(DiffTitleContext)
WiringCheck == ContextHas("wiring") \/ ContextHas("lcd")

GuidancePairs == <<CustomCharacterPair, KeypadPair, TheoryPair, WiringPair, GenericPair>>

\* C19: buildTaskDifferentiation returns one of the five fixed pairs, which
\* differ from one another: the pair of the first check that holds in the
\* order custom-character, keypad/matrix, theory/concept title, wiring/display,
\* and the generic pair only when no check holds
C19_FirstCheckWins ==
    /\ \A i, j \in DOMAIN GuidancePairs : i # j => GuidancePairs[i] # GuidancePairs[j]
    /\ DiffRun =>
          tOut.value = (IF CustomCharacterCheck THEN CustomCharacterPair
                        ELSE IF KeypadCheck THEN KeypadPair
                        ELSE IF TheoryCheck THEN TheoryPair
                        ELSE IF WiringCheck THEN WiringPair
                        ELSE GenericPair)

\* a task whose context has keypad and wiring keywords and a theory title,
\* and gets the keypad pair
C19_Witness ==
    /\ DiffRun
    /\ ~CustomCharacterCheck /\ KeypadCheck /\ TheoryCheck /\ WiringCheck
    /\ tOut.value = KeypadPair

\* C20: buildTaskDifferentiation selects the custom-character pair exactly
\* when the combined task title, page titles and page body text contain both
\* the word 'custom' and the word 'character'
C20_Original ==
    DiffRun =>
        ((tOut.value = CustomCharacterPair) <=> (ContextHas("custom") /\ ContextHas("character")))

\* ---- Statements about the intro pages of a build ----

BuiltIntroPages == {bOut.introPages[k] : k \in DOMAIN bOut.introPages}

\* the source pages with fewer than two source pages before them
TwoLowestPages ==
    {page \in BuiltPages :
        Cardinality({other \in BuiltPages : other.position < page.position}) < 2}

\* C17: the intro pages of a build are exactly the source pages positioned
\* strictly before the lowest-position task-style SubHeader when the module has
\* one, and otherwise the two lowest-position source pages (all of them when
\* there are fewer than two)
C17_IntroPages ==
    bOut.built =>
        /\ Len(bOut.introPages) = Cardinality(BuiltIntroPages)
        /\ BuiltIntroPages =
              (IF TaskHeaders # {}
               THEN {page \in BuiltPages :
                        page.position < Least(PositionsOf(TaskHeaders))}
               ELSE TwoLowestPages)

\* two task headers listed highest position first, with source pages on both
\* sides of the lower one
C17_Witness ==
    /\ bOut.built
    /\ Cardinality(TaskHeaders) = 2
    /\ bIn.listed[1] \in TaskHeaders
    /\ bIn.listed[1].position > Least(PositionsOf(TaskHeaders))
    /\ BuiltIntroPages # {}
    /\ BuiltPages \ BuiltIntroPages # {}

\* no task header and more than two source pages
C17_WitnessFallback ==
    /\ bOut.built
    /\ TaskHeaders = {}
    /\ Cardinality(BuiltPages) > 2
    /\ Len(bOut.introPages) = 2

\* ---- Statements about the grouping of the source pages ----

\* the tasks of the build that hold the page
TasksHolding(page) ==
    {k \in DOMAIN bOut.tasks : \E i \in DOMAIN bOut.tasks[k].pages : bOut.tasks[k].pages[i] = page}

\* how often the page is among the intro pages
TimesInIntro(page) ==
    Cardinality({i \in DOMAIN bOut.introPages : bOut.introPages[i] = page})

\* how often the page is among the pages of task k
TimesInTask(page, k) ==
    Cardinality({i \in DOMAIN bOut.tasks[k].pages : bOut.tasks[k].pages[i] = page})

\* C29: when the module has a task-style SubHeader, every source page is
\* either an intro page or a page of exactly one task, never both and never
\* of two tasks, and the intro pages and task pages are source pages
C29_PagesPartitioned ==
    (bOut.built /\ TaskHeaders # {}) =>
        /\ \A page \in BuiltPages :
              /\ TimesInIntro(page) + Cardinality(TasksHolding(page)) = 1
              /\ \A k \in TasksHolding(page) : TimesInTask(page, k) = 1
        /\ BuiltIntroPages \subseteq BuiltPages
        /\ \A k \in DOMAIN bOut.tasks : \A i \in DOMAIN bOut.tasks[k].pages :
              bOut.tasks[k].pages[i] \in BuiltPages

\* an intro page, a task with a page, and a task header without pages
C29_Witness ==
    /\ bOut.built
    /\ Cardinality(TaskHeaders) = 2
    /\ BuiltIntroPages # {}
    /\ Len(bOut.tasks) = 1
    /\ Cardinality(BuiltPages) = 2

\* two tasks with a page each
C29_WitnessTwoTasks ==
    /\ bOut.built
    /\ Len(bOut.tasks) = 2
    /\ Cardinality(BuiltPages) = 2

\* ---- Statements about the insertion position ----

InsertionRun == tOut.built /\ tIn.fn = "insertion"

GivenItems == {tIn.items[i] : i \in DOMAIN tIn.items}

\* the SubHeaders titled 'teachers notes' after trimming and case folding
GivenNotesHeaders ==
    {item \in GivenItems : item.type = "SubHeader" /\ TitleKey(item.title) = "teachers notes"}

\* C16: findTeacherNotesInsertionPosition returns the position of the
\* lowest-position SubHeader titled 'teachers notes' (trimmed, any letter case)
\* plus 1 when there is one, otherwise the lowest position among the module
\* items, and 1 for a module without items
C16_InsertionPosition ==
    InsertionRun =>
        tOut.value = (IF GivenNotesHeaders # {} THEN Least(PositionsOf(GivenNotesHeaders)) + 1
                      ELSE IF GivenItems = {} THEN 1
                      ELSE Least(PositionsOf(GivenItems)))

\* a listing that gives the later of two Teachers Notes headers first
C16_Witness ==
    /\ InsertionRun
    /\ Len(tIn.items) = 2
    /\ \A i \in 1..2 : tIn.items[i] \in GivenNotesHeaders
    /\ tIn.items[1].position > tIn.items[2].position
    /\ tOut.value = tIn.items[2].position + 1

\* a listing without a Teachers Notes header whose lowest position is not 1
\* and does not come first
C16_WitnessLowest ==
    /\ InsertionRun
    /\ GivenNotesHeaders = {} /\ Len(tIn.items) = 2
    /\ tIn.items[1].position > tIn.items[2].position
    /\ tOut.value = tIn.items[2].position

\* ---- Statements about the task sequence objective ----

SequenceRun == tOut.built /\ tIn.fn = "sequence"

\* the titles that parse as a 'Session <digits>: Task <alnum>' header
ParsedTitle(title) == parseTaskHeader(title) # NoHeader

SessionLabelOf(title) == parseTaskHeader(title)[1].sessionLabel

TaskLabelOf(title) == parseTaskHeader(title)[1].taskLabel

\* every title parses and the session labels are equal ignoring case
OneSession(titles) ==
    /\ \A i \in DOMAIN titles : ParsedTitle(titles[i])
    /\ \A i, j \in DOMAIN titles :
          toLowerCase(SessionLabelOf(titles[i])) = toLowerCase(SessionLabelOf(titles[j]))

\* C18: buildTaskSequenceObjective returns no bullet for an empty task list;
\* 'Complete <SessionLabel>: Task <L1>/<L2>/...' with the upper-cased task
\* labels joined by '/' in task order exactly when every title parses as a
\* task header and all session labels are equal ignoring case; otherwise the
\* generic bullet listing every title verbatim; and for 'Session 03: Task A',
\* 'Session 03: Task B' exactly 'Complete Session 03: Task A/B.'
C18_TaskSequence ==
    SequenceRun =>
        /\ tOut.value =
              (IF Len(tIn.titles) = 0 THEN NoBullet
               ELSE IF OneSession(tIn.titles)
               THEN <<"Complete " \o SessionLabelOf(tIn.titles[1]) \o ": Task "
                         \o join([i \in DOMAIN tIn.titles |->
                                     toUpperCase(TaskLabelOf(tIn.titles[i]))], "/") \o ".">>
               ELSE <<"Complete the session task sequence: " \o join(tIn.titles, ", ") \o ".">>)
        /\ tIn.titles = <<"Session 03: Task A", "Session 03: Task B">>
              => tOut.value = <<"Complete Session 03: Task A/B.">>
        /\ \A i \in DOMAIN tIn.titles :
              ParsedTitle(tIn.titles[i]) <=> tIn.titles[i] \notin {"Warm up", "Session 03: Task"}

\* two titles of one session written in different letter case and spacing
C18_Witness ==
    /\ SequenceRun
    /\ tIn.titles = <<" session  03 : task b2", "Session 03: Task A">>
    /\ tOut.value = <<"Complete session 03: Task B2/A.">>

\* ---- Statements about the rendered document ----

RenderRun == tOut.built /\ tIn.fn = "render"

\* the heading line for each page title of the render runs
HeadingLineOf(pageTitle) ==
    IF pageTitle = "Notes" THEN "<h2>Notes</h2>" ELSE "<h2>Q&amp;A &quot;draft&quot;</h2>"

\* the session name as the filler bullet shows it
ShownSessionName(sessionName) ==
    IF sessionName = "Keypad  Lab" THEN "Keypad Lab" ELSE sessionName

ObjectiveOpening ==
    "\n<h3>Main Session Objective</h3>"
        \o "\n<p>By the end of the session, students should be able to:</p>\n<ul>\n"

ComponentsOpening ==
    "\n</ul>\n<p><strong>Teacher focus:</strong> Encourage students to explain their thinking, test ideas independently, and iterate before asking for direct fixes.</p>"
        \o "\n<hr />\n<h3>Components &amp; Software Required</h3>"
        \o "\n<p><strong>Software:</strong></p>\n<ul>\n"

HardwareOpening == "\n</ul>\n<p><strong>Hardware:</strong></p>\n<ul>\n"

IssuesOpening == "\n<hr />\n<h3>Most Common Issues</h3>\n<ul>\n<li>\n<p>"

DocumentClosing ==
    "\n</li>\n</ul>\n<p>Keep students in a troubleshooting cycle: inspect, test, adjust, then re-test.</p>"

\* the document for a module without items
EmptyModuleDocument(pageTitle, sessionName) ==
    HeadingLineOf(pageTitle) \o ObjectiveOpening
        \o "<li><p>Apply the core skills from " \o ShownSessionName(sessionName)
        \o " with increasing independence.</p></li>"
        \o "\n<li><p>Troubleshoot one issue at a time before requesting direct help.</p></li>"
        \o ComponentsOpening
        \o "<li><p>Arduino IDE</p></li>\n<li><p>Serial Monitor</p></li>"
        \o HardwareOpening
        \o "<li><p>LCD screen module</p></li>\n<li><p>3x4 matrix keypad</p></li>"
        \o "\n<li><p>NodeMCU ESP32 board</p></li>\n</ul>"
        \o IssuesOpening
        \o "Students forget to save a known-good version before experimenting.</p>"
        \o "\n<ul>\n<li><p><strong>Solution:</strong> Set mandatory checkpoint saves after each working milestone before extensions.</p></li>\n</ul>"
        \o DocumentClosing

\* C15: renderTeacherNotesHtml returns a complete document for any module
\* content: the title heading, the objective section with at least one bullet,
\* the software and hardware lists each with at least one entry, the
\* common-issues section with at least one issue and the closing
\* troubleshooting sentence; for a module without items it is the heading, the
\* two generic filler bullets, the two static fallback lists, no task section,
\* the common-issues section and the closing sentence
C15_CompleteDocument ==
    RenderRun =>
        /\ StartsAt(tOut.value, 1, HeadingLineOf(tIn.pageTitle) \o ObjectiveOpening \o "<li><p>")
        /\ includes(tOut.value, "</p></li>" \o ComponentsOpening \o "<li><p>")
        /\ includes(tOut.value, "</p></li>" \o HardwareOpening \o "<li><p>")
        /\ includes(tOut.value, IssuesOpening)
        /\ endsWith(tOut.value, "</p></li>\n</ul>" \o DocumentClosing)
        /\ tIn.kinds = <<>> => tOut.value = EmptyModuleDocument(tIn.pageTitle, tIn.sessionName)

\* the document of the module without items, under a title that needs escaping
C15_Witness ==
    /\ RenderRun
    /\ tIn.kinds = <<>>
    /\ tIn.pageTitle # "Notes"
    /\ ~includes(tOut.value, "Differentiation")

\* a document with a task section
C15_WitnessTask ==
    /\ RenderRun
    /\ includes(tOut.value, "<h3>Session 03: Task A</h3>")
    /\ includes(tOut.value, "Wire &lt;it&gt;")

\* ---- Statements about the component lookup ----

ComponentRun == tOut.built /\ tIn.fn = "components"

ComponentTable == IF tIn.table = "software" THEN SOFTWARE_KEYWORDS ELSE HARDWARE_KEYWORDS

ComponentFallback == IF tIn.table = "software" THEN SoftwareFallback ELSE HardwareFallback

\* the table rows whose pattern matches the full text, in table order
MatchingRows ==
    SelectSeq(ComponentTable, LAMBDA entry : KeywordTest(entry, FullTextOf(tIn.texts)))

\* C21: detectComponents returns the fallback list unchanged when no pattern
\* of the table matches the full text; otherwise the label of every matching
\* pattern, in table order, each label once, and nothing else
C21_ComponentLabels ==
    ComponentRun =>
        /\ tOut.value = (IF Len(MatchingRows) = 0 THEN ComponentFallback
                         ELSE [i \in 1..Len(MatchingRows) |-> MatchingRows[i].label])
        /\ NoDuplicates(tOut.value)
        /\ (tIn.table = "hardware"
              /\ tIn.texts = <<"Plug the USB cable into the ESP32 on a breadboard">>)
             => tOut.value = <<"NodeMCU ESP32 board", "Breadboard", "USB cable">>
        /\ (tIn.table = "hardware" /\ tIn.texts = <<"nousb keypads">>)
             => tOut.value = HardwareFallback

\* texts given out of table order whose patterns match three rows, none of
\* them all of the fallback list
C21_Witness ==
    /\ ComponentRun
    /\ tIn.table = "hardware"
    /\ tIn.texts = << "jumper wires and a web browser: Tinkercad, Blender",
                      "Use a 3x4 matrix keypad with the LCD." >>
    /\ tOut.value = <<"LCD screen module", "3x4 matrix keypad", "Jumper wires">>

\* ---- Statements about the plain text of markup ----

PlainTextRun == tOut.built /\ tIn.fn = "plainText"

PlainTextTwice == PlainTextRun /\ tOut.twice

\* s holds a '<...>' tag sequence
HasTag(s) == \E i \in 1..Len(s) : TagMatchEnd(s, i) > 0

\* s holds an entity or character reference
HasEntity(s) == \E i \in 1..Len(s) : EntityMatchEnd(toLowerCase(s), i) > 0

\* C22 as stated: toPlainText run on its own output returns that output, for
\* every input, and its output contains no '<...>' tag sequence
C22_Original ==
    /\ PlainTextRun => ~HasTag(tOut.value)
    /\ PlainTextTwice => tOut.second = tOut.value

\* C22, amended: the output of toPlainText contains no '<...>' tag sequence
\* for every input without entity references, and toPlainText run on its own
\* output returns that output whenever the output holds neither a tag
\* sequence nor an entity reference (every input without entity references
\* is such an input); '&lt;b&gt;' gives '<b>' and a second run gives ''
C22_PlainTextStable ==
    /\ (PlainTextRun /\ ~HasEntity(tIn.html)) =>
          ~HasTag(tOut.value) /\ ~HasEntity(tOut.value)
    /\ (PlainTextTwice /\ ~HasTag(tOut.value) /\ ~HasEntity(tOut.value)) =>
          tOut.second = tOut.value
    /\ (PlainTextTwice /\ tIn.html = "&lt;b&gt;") => tOut.value = "<b>" /\ tOut.second = ""

\* markup with tags, a bare '<' and white space, run twice
C22_Witness ==
    /\ PlainTextTwice
    /\ tIn.html = "<b>x</b> y 1 < 2 "
    /\ tOut.value = "x y 1 < 2"
    /\ tOut.second = tOut.value

\* ---- Statements about decoding and escaping ----

EntityRoundTrip == tOut.built /\ tIn.fn = "entity" /\ tOut.twice

\* the named entities escapeHtml writes
EscapedNames == {"amp", "lt", "gt", "quot"}

\* C23 as stated: for every named entity of the decoder's table, decoding the
\* entity text and escaping the result gives back the entity text
C23_Original == EntityRoundTrip => tOut.second = EntityText(tIn.name)

\* C23, amended: decoding the entity text and escaping the result gives back
\* the entity text for amp, lt, gt and quot, and for no other entity of the
\* table: apos, rsquo and lsquo come back as '&#39;', ldquo and rdquo as
\* '&quot;', nbsp as a space, ndash and mdash as '-', times as 'x'
C23_RoundTripOfEscaped ==
    EntityRoundTrip =>
        /\ tIn.name \in EscapedNames <=> tOut.second = EntityText(tIn.name)
        /\ tIn.name \in {"apos", "rsquo", "lsquo"} => tOut.second = "&#39;"
        /\ tIn.name \in {"ldquo", "rdquo"} => tOut.second = "&quot;"
        /\ tIn.name = "nbsp" => tOut.second = " "
        /\ tIn.name \in {"ndash", "mdash"} => tOut.second = "-"
        /\ tIn.name = "times" => tOut.second = "x"

\* the double quote decoded and escaped
C23_Witness ==
    /\ EntityRoundTrip
    /\ tIn.name = "quot"
    /\ tOut.value = "\""
    /\ tOut.second = "&quot;"

\* ---- Statements about outcome bullets ----

BulletRun == tOut.built /\ tIn.fn = "bullet" /\ tOut.twice

\* C24 as stated: every bullet toOutcomeBullet returns for a sentence found by
\* firstSentence ends with exactly one terminal period
C24_Original ==
    BulletRun => endsWith(tOut.second, ".") /\ ~endsWith(tOut.second, "..")

\* the bullets of the page texts, by text
BulletExamples ==
    BulletRun =>
        /\ tIn.text = "Wire it up." => tOut.value = <<"Wire it up..">> /\ tOut.second = "Wire it up.."
        /\ tIn.text = "Short text" => tOut.second = "Short text."
        /\ tIn.text = "Stop!" => tOut.second = "Stop!."
        /\ tIn.text = "We will test the keypad today..." => tOut.second = "We will test the keypad today..."
        /\ tIn.text = "Is the keypad wired to the board?  Check it."
              => tOut.second = "Is the keypad wired to the board."

\* ---- Statements about the archive of an overwritten page ----

\* a live run that got its build, at any point after that
LiveRun == cli.pc \notin {"idle"} /\ ~cli.isDraftMode /\ ~cli.dryRun /\ cli.built.built

\* the course pages titled as the first call of the run
PagesOfFirstCall ==
    SelectSeq(coursePages, LAMBDA page : page.title = cli.calls[1].title)

\* the page at the url as it was when the run started
PageAtStart(pageUrl) == getPage(cli.listed, pageUrl)

\* C25: in live mode an updatePage of the run is its second call, after a
\* createPage that has made exactly one archive page, unpublished, carrying
\* the body the page had before the overwrite, under a title other than the
\* notes title; the run creates no second archive page, and a run that
\* creates the notes page creates no archive page
C25_ArchiveBeforeOverwrite ==
    LiveRun =>
        /\ \A i \in DOMAIN cli.calls :
              cli.calls[i].op = "updatePage" =>
                  /\ i = 2
                  /\ cli.calls[1].op = "createPage"
                  /\ cli.calls[1].title # cli.pageTitle
                  /\ normalize(cli.calls[1].title) # normalize(cli.pageTitle)
                  /\ Len(PagesOfFirstCall) = 1
                  /\ ~PagesOfFirstCall[1].published
                  /\ PagesOfFirstCall[1].body = PageAtStart(cli.calls[i].url).body
                  /\ PagesOfFirstCall[1].url # cli.calls[i].url
        /\ Len(CallsOf("createPage")) <= 1
        /\ Len(coursePages) = Len(cli.listed) + Len(CallsOf("createPage"))
        /\ NotesCreates # <<>> => CallsOf("updatePage") = <<>>
        /\ cli.pc = "archived" =>
              /\ CallsOf("updatePage") = <<>>
              /\ getPage(coursePages, cli.pageUrl) = PageAtStart(cli.pageUrl)

\* a completed live run that found its page through the title search,
\* archived it and then overwrote it
C25_Witness ==
    /\ LiveDone
    /\ TitledItems = <<>>
    /\ Len(cli.calls) >= 2
    /\ cli.calls[1].op = "createPage" /\ cli.calls[2].op = "updatePage"
    /\ getPage(coursePages, cli.pageUrl).body = cli.built.notesHtml
    /\ PagesOfFirstCall[1].body = "<p>old</p>"

\* a completed live run that found its page through the module item
C25_WitnessModuleItem ==
    /\ LiveDone
    /\ TitledItems # <<>>
    /\ Len(cli.calls) = 2
    /\ cli.calls[2].op = "updatePage"

\* ---- Statements about the dry run ----

\* the places of the module's Teachers Notes SubHeaders
HeaderPlaces(stored) ==
    {i \in DOMAIN stored : IsTeacherNotesHeader(listModuleItems(stored)[i])}

DryRun == cli.pc # "idle" /\ cli.dryRun

\* C27: a run with --dry-run makes no createPage, updatePage,
\* createModulePageItem or updateModuleItemPosition call, in draft and in live
\* mode: it ends after the build, and the course pages and the module are as
\* the run found them
C27_DryRunReadsOnly ==
    DryRun =>
        /\ cli.calls = <<>>
        /\ cli.pc \in {"done", "failed"}
        /\ cli.pc = "failed" => cli.error \in {"resolveModuleByName", "listModuleItems", "getPage"}
        /\ coursePages = cli.listed
        /\ sessionModule = cli.moduleAtStart

\* a completed live dry run on a course whose titled page a live run would
\* have archived and overwritten, and whose module it would have changed
C27_Witness ==
    /\ DryRun /\ cli.pc = "done" /\ ~cli.isDraftMode
    /\ TitledPages # <<>>
    /\ TitledItems = <<>>
    /\ HeaderPlaces(sessionModule) # {}

(***************************************************************************)
(* Placement runs: the command on a course that has the notes page, over   *)
(* longer session modules                                                  *)
(***************************************************************************)
InitPlace ==
    /\ courseQuizzes = Idle /\ create = Idle
    /\ bIn = Idle /\ bOut = Idle /\ tIn = Idle /\ tOut = Idle
    /\ coursePages = PagePool
    /\ \E n \in 0..MaxPlaceItems : \E kinds \in [1..n -> ModuleKinds(coursePages)] :
          sessionModule = [i \in 1..n |->
                              [id |-> 100 + i, title |-> kinds[i].title,
                               type |-> kinds[i].type, page_url |-> kinds[i].page_url]]
    /\ cli = [pc |-> "idle", n |-> 0, rawPageTitle |-> "Notes",
              isDraftMode |-> FALSE, dryRun |-> FALSE, pageTitle |-> "Notes",
              built |-> NoResult, listed |-> <<>>, moduleAtStart |-> <<>>,
              error |-> "none", pageUrl |-> NoUrl, calls |-> <<>>]
    /\ first = NotStarted

SpecPlace == InitPlace /\ [][Next]_vars

\* the item right after the first Teachers Notes SubHeader is a Page item of
\* the notes page
NotesItemUnderHeader(stored) ==
    With(Least(HeaderPlaces(stored)), LAMBDA h :
        /\ h + 1 <= Len(stored)
        /\ stored[h + 1].type = "Page"
        /\ stored[h + 1].page_url = cli.pageUrl)

\* C26 as stated: after a completed live run on a module that has a Teachers
\* Notes SubHeader, the module item of the notes page sits immediately after
\* that SubHeader, wherever an existing notes item was before the run
C26_Original ==
    (LiveDone /\ HeaderPlaces(cli.moduleAtStart) # {}) => NotesItemUnderHeader(sessionModule)

\* the run that moved a notes item from before the header: the item is where
\* the run asked for, and an item stands between the header and it
NotesItemMovedPastHeader ==
    /\ LiveDone
    /\ cli.moduleAtStart = << [id |-> 101, title |-> "NOTES", type |-> "Page", page_url |-> "notes"],
                              [id |-> 102, title |-> "Teachers Notes", type |-> "SubHeader", page_url |-> NoUrl],
                              [id |-> 103, title |-> "Intro", type |-> "Page", page_url |-> "intro"] >>
    /\ cli.n = 1
    /\ cli.built.insertionPosition = 3
    /\ sessionModule = << cli.moduleAtStart[2], cli.moduleAtStart[3], cli.moduleAtStart[1] >>

(***************************************************************************)
(* Fetch runs: buildTeacherNotesForSession with its getPage calls in       *)
(* flight together, completing in any order                                *)
(***************************************************************************)
\* const pageItems
FetchItems(sortedItems, pageTitle) ==
    With(findTeacherNotesRange(sortedItems), LAMBDA teacherNotesRange :
    With(toLowerCase(trim(pageTitle)), LAMBDA pageTitleKey :
        SelectSeq(sortedItems,
                  LAMBDA item : IsSourcePageItem(item, pageTitleKey, teacherNotesRange))))

\* the array Promise.all resolves to, handed over in completion order and unsorted
settledPagesInCompletionOrder(slots, order) ==
    [j \in 1..Len(order) |-> slots[order[j]][1]]

\* the array Promise.all resolves to, sorted by position: the value of each
\* callback at the index of its item, whatever the order of completion
settledPages(slots, order) ==
    sortByPosition([i \in 1..Len(slots) |-> slots[i][1]])

NoBuilds == [stage |-> "ready", n |-> 0, results |-> <<>>, slots |-> <<>>, order |-> <<>>]

\* the items of the fetch runs: a task header and two pages with a body
FetchKinds == {kind \in RenderKinds : kind.title # "Blank"}

InitFetch ==
    /\ courseQuizzes = Idle /\ create = Idle
    /\ tIn = Idle /\ tOut = Idle
    /\ coursePages = Idle /\ sessionModule = Idle /\ cli = Idle /\ first = Idle
    /\ \E n \in 0..MaxFetchItems : \E kinds \in [1..n -> FetchKinds] :
       \E order \in (IF n > 1 THEN {"asc", "desc"} ELSE {"asc"}) :
          bIn = [listed |-> ListedModule(kinds, order), pageTitle |-> "Notes",
                 sessionName |-> "Session 03"]
    /\ bOut = NoBuilds

\* the build lists and sorts the items and issues one getPage per source page
IssueGetPages ==
    /\ bOut.stage = "ready" /\ bOut.n < MaxBuilds
    /\ bOut' = [bOut EXCEPT
                   !.stage = "fetching", !.n = @ + 1, !.order = <<>>,
                   !.slots = [i \in 1..Len(FetchItems(sortByPosition(bIn.listed), bIn.pageTitle))
                                 |-> <<>>]]
    /\ UNCHANGED <<bIn, textVars, cliVars, quizVars>>

\* one of the getPage calls in flight completes: its callback returns the
\* page context of its own item
CompleteGetPage ==
    /\ bOut.stage = "fetching"
    /\ \E i \in DOMAIN bOut.slots :
          /\ bOut.slots[i] = <<>>
          /\ With(FetchItems(sortByPosition(bIn.listed), bIn.pageTitle)[i], LAMBDA item :
                bOut' = [bOut EXCEPT
                            !.slots[i] = <<PageContext(item, RenderPageBody[item.page_url])>>,
                            !.order = Append(@, i)])
    /\ UNCHANGED <<bIn, textVars, cliVars, quizVars>>

\* the TeacherNotesBuildResult of the sorted items and the settled pages
FetchResult(pageTitle, sessionName, sortedItems, modulePages) ==
    [moduleItems |-> sortedItems,
     modulePages |-> modulePages,
     notesHtml |-> renderTeacherNotesHtml(pageTitle, sessionName, sortedItems, modulePages),
     insertionPosition |-> findTeacherNotesInsertionPosition(sortedItems)]

\* every getPage has completed: Promise.all resolves, and the build sorts the
\* pages, renders the notes and returns
ResolveBuild ==
    /\ bOut.stage = "fetching"
    /\ \A i \in DOMAIN bOut.slots : bOut.slots[i] # <<>>
    /\ bOut' = [bOut EXCEPT
                   !.stage = "ready",
                   !.results = Append(@, FetchResult(bIn.pageTitle, bIn.sessionName,
                                                     sortByPosition(bIn.listed),
                                                     settledPages(bOut.slots, bOut.order)))]
    /\ UNCHANGED <<bIn, textVars, cliVars, quizVars>>

NextFetch ==
    \/ IssueGetPages
    \/ CompleteGetPage
    \/ ResolveBuild

SpecFetch == InitFetch /\ [][NextFetch]_vars

\* ---- Statements about the fetch runs ----

\* a build has just returned
BuildReturned == bOut.stage = "ready" /\ bOut.n >= 1

LastResult == bOut.results[Len(bOut.results)]

\* C28: whatever the order in which the getPage calls complete, modulePages
\* is sorted by ascending position with each page body attached to the item
\* it was fetched for, and notesHtml and insertionPosition are the same: two
\* builds over the same module items and page bodies return the same result
C28_OrderIndependent ==
    BuildReturned =>
        /\ LastResult.modulePages =
              buildModulePages(sortByPosition(bIn.listed), bIn.pageTitle, RenderPageBody)
        /\ \A i, j \in DOMAIN LastResult.modulePages :
              i < j => LastResult.modulePages[i].position < LastResult.modulePages[j].position
        /\ \A i \in DOMAIN LastResult.modulePages :
              With(LastResult.modulePages[i], LAMBDA page :
                  /\ page.bodyHtml = RenderPageBody[page.pageUrl]
                  /\ \E k \in DOMAIN bIn.listed :
                        /\ bIn.listed[k].position = page.position
                        /\ bIn.listed[k].page_url = page.pageUrl
                        /\ bIn.listed[k].title = page.title)
        /\ LastResult.insertionPosition =
              findTeacherNotesInsertionPosition(sortByPosition(bIn.listed))
        /\ \A a, b \in DOMAIN bOut.results : bOut.results[a] = bOut.results[b]

\* the second build has returned after its getPage calls completed last
\* page first, over three source pages
C28_Witness ==
    /\ BuildReturned
    /\ bOut.n = 2
    /\ bOut.order = <<3, 2, 1>>
    /\ Len(LastResult.modulePages) = 3
    /\ LastResult.modulePages[1].bodyText # LastResult.modulePages[2].bodyText

(***************************************************************************)
(* Create runs: the create command uploads a validated quiz to the course  *)
(***************************************************************************)
MaxQuestions == 2

\* value ?? fallback, an absent value being the empty sequence
orDefault(opt, fallback) == IF opt = <<>> THEN fallback ELSE opt[1]

mapToCanvasQuiz(quiz) ==
    [canvasQuiz |->
        [title |-> quiz.title,
         published |-> FALSE,
         allowed_attempts |-> orDefault(quiz.settings.allowedAttempts, 1)],
     canvasQuestions |->
        [i \in 1..Len(quiz.questions) |->
            [question_name |-> quiz.questions[i].id,
             points_possible |-> 1,
             answers |-> [k \in 1..Len(quiz.questions[i].choices) |->
                            [answer_text |-> quiz.questions[i].choices[k],
                             answer_weight |-> IF k - 1 = quiz.questions[i].correctIndex
                                               THEN 100 ELSE 0]]]]]

\* the quizzes a run is given: one to MaxQuestions two-choice questions
QuestionIds == <<"Q1", "Q2", "Q3">>
QuizInputs ==
    UNION {{[title |-> "Keypad quiz",
             settings |-> [allowedAttempts |-> attempts],
             questions |-> [i \in 1..n |-> [id |-> QuestionIds[i],
                                            choices |-> <<"yes", "no">>,
                                            correctIndex |-> correct[i]]]] :
              correct \in [1..n -> {0, 1}], attempts \in {<<>>, <<2>>}} :
           n \in 1..MaxQuestions}

\* a quiz the course holds before the run
ExistingQuiz == [id |-> 1, title |-> "Older quiz", published |-> TRUE, questions |-> <<>>]

InitCreate ==
    /\ bIn = Idle /\ bOut = Idle /\ tIn = Idle /\ tOut = Idle
    /\ coursePages = Idle /\ sessionModule = Idle /\ cli = Idle /\ first = Idle
    /\ courseQuizzes \in {<<>>, <<ExistingQuiz>>}
    /\ \E dryRun \in BOOLEAN, quiz \in QuizInputs :
          create = [pc |-> "idle", dryRun |-> dryRun, quiz |-> quiz,
                    mapped |-> NoResult, created |-> 0, next |-> 1,
                    warned |-> FALSE, error |-> "none", calls |-> <<>>]

\* where the command goes once every question is added
pcAfterQuestions(mapped) ==
    IF mapped.canvasQuiz.published = FALSE THEN "publish" ELSE "done"

\* the quiz of the course with this id
QuizPlace(id) == CHOOSE i \in DOMAIN courseQuizzes : courseQuizzes[i].id = id

\* validation and mapping, the summary, and the return of a dry run
StartCreate ==
    /\ create # Idle /\ create.pc = "idle"
    /\ create' = [create EXCEPT !.mapped = mapToCanvasQuiz(create.quiz),
                                !.pc = IF create.dryRun THEN "done" ELSE "mapped"]
    /\ UNCHANGED <<courseQuizzes, buildVars, textVars, cliVars>>

\* client.createQuiz: the platform stores the quiz as sent, or refuses
CallCreateQuiz ==
    /\ create # Idle /\ create.pc = "mapped"
    /\ \E ok \in BOOLEAN :
          IF ok
          THEN With(Len(courseQuizzes) + 1, LAMBDA id :
                  /\ courseQuizzes' = Append(courseQuizzes,
                         [id |-> id, title |-> create.mapped.canvasQuiz.title,
                          published |-> create.mapped.canvasQuiz.published,
                          questions |-> <<>>])
                  /\ create' = [create EXCEPT !.created = id, !.pc = "adding",
                                              !.calls = Append(@, "createQuiz")])
          ELSE /\ create' = [create EXCEPT !.pc = "failed", !.error = "createQuiz",
                                           !.calls = Append(@, "createQuiz")]
               /\ UNCHANGED courseQuizzes
    /\ UNCHANGED <<buildVars, textVars, cliVars>>

\* client.addQuizQuestion for the next question of the loop
CallAddQuizQuestion ==
    /\ create # Idle /\ create.pc = "adding"
    /\ \E ok \in BOOLEAN :
          IF ok
          THEN /\ courseQuizzes' =
                     [courseQuizzes EXCEPT ![QuizPlace(create.created)].questions =
                         Append(@, create.mapped.canvasQuestions[create.next])]
               /\ create' = [create EXCEPT
                     !.next = @ + 1,
                     !.pc = IF create.next = Len(create.mapped.canvasQuestions)
                            THEN pcAfterQuestions(create.mapped) ELSE "adding",
                     !.calls = Append(@, "addQuizQuestion")]
          ELSE /\ create' = [create EXCEPT !.pc = "failed", !.error = "addQuizQuestion",
                                           !.calls = Append(@, "addQuizQuestion")]
               /\ UNCHANGED courseQuizzes
    /\ UNCHANGED <<buildVars, textVars, cliVars>>

\* client.updateQuiz published: true; a failure is caught, reported as a
\* warning, and the command goes on to print the id and the URL
CallPublish ==
    /\ create # Idle /\ create.pc = "publish"
    /\ \E ok \in BOOLEAN :
          IF ok
          THEN /\ courseQuizzes' =
                     [courseQuizzes EXCEPT ![QuizPlace(create.created)].published = TRUE]
               /\ create' = [create EXCEPT !.pc = "unpublish",
                                           !.calls = Append(@, "publish")]
          ELSE /\ create' = [create EXCEPT !.pc = "done", !.warned = TRUE,
                                           !.calls = Append(@, "publish")]
               /\ UNCHANGED courseQuizzes
    /\ UNCHANGED <<buildVars, textVars, cliVars>>

\* client.updateQuiz published: false, with the same catch
CallUnpublish ==
    /\ create # Idle /\ create.pc = "unpublish"
    /\ \E ok \in BOOLEAN :
          IF ok
          THEN /\ courseQuizzes' =
                     [courseQuizzes EXCEPT ![QuizPlace(create.created)].published = FALSE]
               /\ create' = [create EXCEPT !.pc = "done",
                                           !.calls = Append(@, "unpublish")]
          ELSE /\ create' = [create EXCEPT !.pc = "done", !.warned = TRUE,
                                           !.calls = Append(@, "unpublish")]
               /\ UNCHANGED courseQuizzes
    /\ UNCHANGED <<buildVars, textVars, cliVars>>

NextCreate ==
    \/ StartCreate
    \/ CallCreateQuiz
    \/ CallAddQuizQuestion
    \/ CallPublish
    \/ CallUnpublish

SpecCreate == InitCreate /\ [][NextCreate]_vars

\* the command returned from an upload
UploadReturned == create # Idle /\ create.pc = "done" /\ ~create.dryRun

\* the quiz the run created, as the course holds it
CreatedQuiz == courseQuizzes[QuizPlace(create.created)]

\* C30 as stated: after the create command returns from an upload, also when
\* a call of the publish-then-unpublish refresh failed and was reported as a
\* warning, the quiz it created is unpublished
C30_Original ==
    UploadReturned => ~CreatedQuiz.published

\* the run whose second refresh call failed: a warning, and the quiz is left
\* published
UnpublishFailed ==
    /\ UploadReturned
    /\ create.warned
    /\ create.calls[Len(create.calls)] = "unpublish"
    /\ CreatedQuiz.published

====
